---- MODULE Spec2Model ----
(***************************************************************************)
(* The execution engine of ansible-plan (AnsibleWorkflow in                *)
(* ansible_workflow_service/core/engine.py) driven by the HTTP control     *)
(* service (ansible_workflow/service.py).                                  *)
(*                                                                         *)
(* The engine loop runs in a background task that never takes the          *)
(* service's workflow_lock, so the request handlers (stop, restart, skip)  *)
(* interleave with the statements of the loop.  The handlers exclude each  *)
(* other (they all hold workflow_lock).  The engine is therefore modelled  *)
(* statement group by statement group (pc), and each handler write by      *)
(* write (rpc).                                                            *)
(***************************************************************************)
EXTENDS Naturals, Sequences, FiniteSets, TLC

(* ---------------------------------------------------------------------- *)
(* Bounds of the model                                                     *)
(* ---------------------------------------------------------------------- *)
\* skip_node requests accepted during one behaviour
MaxSkipReq == 1
\* restart_node requests accepted during one behaviour
MaxRestartReq == 1

(* ---------------------------------------------------------------------- *)
(* Declarations and the graph compiler                                     *)
(* A declaration is a list of entries; an entry is a playbook or a block   *)
(* (a nested list with a strategy).                                        *)
(* ---------------------------------------------------------------------- *)
Playbook(id) ==
    [id |-> id, kind |-> "playbook", strategy |-> "-", block |-> << >>]

Block(id, strategy, entries) ==
    [id |-> id, kind |-> "block", strategy |-> strategy, block |-> entries]

EmptyGraph == [nodes |-> << >>, edges |-> << >>, pnodes |-> {}]

SeqSet(s) == {s[i] : i \in 1..Len(s)}

\* nx.DiGraph.add_node: nodes keep their insertion order
graph_add_node(g, n) ==
    IF n \in SeqSet(g.nodes) THEN g ELSE [g EXCEPT !.nodes = Append(@, n)]

\* AnsibleWorkflow.add_link / nx.DiGraph.add_edge
add_link(g, u, v) ==
    LET g1 == graph_add_node(graph_add_node(g, u), v)
    IN  IF <<u, v>> \in SeqSet(g1.edges) THEN g1
        ELSE [g1 EXCEPT !.edges = Append(@, <<u, v>>)]

\* `for parent_node in parent_nodes: self.__graph.add_edge(parent, gnode_id)`
RECURSIVE add_links(_, _, _)
add_links(g, from, to) ==
    IF from = << >> THEN g
    ELSE add_links(add_link(g, Head(from), to), Tail(from), to)

\* the node specification is added: graph.add_node and the data map
add_node(g, inode) ==
    LET g1 == graph_add_node(g, inode.id)
    IN  IF inode.kind = "playbook"
        THEN [g1 EXCEPT !.pnodes = @ \cup {inode.id}]
        ELSE g1

\* the strategy test with every level taken as serial
is_serial_always(strategy) == TRUE

\* _import_nodes: `if strategy == 'serial'`
is_serial(strategy) == strategy = "serial"

\* AnsibleWorkflow._import_nodes, from entry i of to_be_imported onwards;
\* yields the graph and the zero_outdegree_nodes of the level
RECURSIVE import_nodes(_, _, _, _, _, _)
import_nodes(to_be_imported, i, parent_nodes, zero_outdegree_nodes, strategy, g) ==
    IF i > Len(to_be_imported)
    THEN [g |-> g, zero |-> zero_outdegree_nodes]
    ELSE
      LET inode == to_be_imported[i]
          serial == is_serial(strategy)
          is_block == inode.kind = "block"
          g1 == add_links(g, parent_nodes, inode.id)
          g2 == IF serial THEN add_links(g1, zero_outdegree_nodes, inode.id) ELSE g1
          zero1 == IF serial THEN << >> ELSE zero_outdegree_nodes
          sub == IF is_block
                 THEN import_nodes(inode.block, 1, <<inode.id>>, << >>,
                                   inode.strategy, g2)
                 ELSE [g |-> g2, zero |-> << >>]
          g3 == add_node(sub.g, inode)
          zero2 ==
              IF ~is_block
              THEN IF ~serial \/ inode = to_be_imported[Len(to_be_imported)]
                   THEN Append(zero1, inode.id)
                   ELSE zero1
              ELSE zero1 \o sub.zero
          parents2 ==
              IF serial
              THEN IF is_block /\ Len(inode.block) > 0 THEN sub.zero
                   ELSE <<inode.id>>
              ELSE parent_nodes
      \* the entry's graph is evaluated in full before the loop moves on
      IN  IF Len(g3.edges) >= 0 /\ Len(zero2) >= 0 /\ Len(parents2) >= 0
          THEN import_nodes(to_be_imported, i + 1, parents2, zero2, strategy, g3)
          ELSE [g |-> g3, zero |-> zero2]

\* __import_file: the declaration wrapped between the two sentinel blocks
\* (empty blocks; the engine names them _s and _e, engine.py lines 103, 294)
import_file(decl) ==
    <<Block("_s", "parallel", << >>)>> \o decl \o <<Block("_e", "parallel", << >>)>>

\* AnsibleWorkflow.__init__: import the file, then the nodes, top level serial
compile(decl) ==
    import_nodes(import_file(decl), 1, << >>, << >>, "serial", EmptyGraph).g

\* [ block(parallel, [P1, P2]), P3 ]:  _s -> B -> {P1, P2} -> P3 -> _e
DeclFanOut ==
    << Block("B", "parallel", <<Playbook("P1"), Playbook("P2")>>),
       Playbook("P3") >>

\* S1 of the specification: [ P1, P2 ]
DeclSerial == << Playbook("P1"), Playbook("P2") >>

\* S2: [ block(parallel, [P1, P2, P3]) ]
DeclParallel ==
    << Block("B", "parallel", <<Playbook("P1"), Playbook("P2"), Playbook("P3")>>) >>

\* S3: [ P0, block(parallel, [P1, P2]), P3 ]
DeclMixed ==
    << Playbook("P0"),
       Block("B", "parallel", <<Playbook("P1"), Playbook("P2")>>),
       Playbook("P3") >>

\* a serial block nested in a parallel one
DeclNested ==
    << Block("B", "parallel",
             << Playbook("P1"),
                Block("C", "serial", <<Playbook("P2"), Playbook("P3")>>) >>) >>

\* an empty block between two playbooks
DeclEmptyBlock ==
    << Playbook("P1"), Block("B", "parallel", << >>), Playbook("P2") >>

\* two blocks in sequence
DeclTwoBlocks ==
    << Block("B", "serial", <<Playbook("P1"), Playbook("P2")>>),
       Block("C", "parallel", <<Playbook("P3"), Playbook("P0")>>) >>

Declarations ==
    { DeclFanOut, DeclSerial, DeclParallel, DeclMixed, DeclNested,
      DeclEmptyBlock, DeclTwoBlocks }

\* every id a declaration of the model uses
AllIds == {"_s", "_e", "B", "C", "P0", "P1", "P2", "P3"}

(* ---------------------------------------------------------------------- *)
(* Every declaration up to a size: blocks nested MaxNesting deep, at most  *)
(* MaxBlockLen entries in a block and MaxTopLen entries at the top level,  *)
(* both strategies, empty blocks in every position.  The ids are explicit  *)
(* and pairwise distinct: the entries are numbered in document order.      *)
(* ---------------------------------------------------------------------- *)
MaxNesting == 2
MaxBlockLen == 2
MaxTopLen == 2

Strategies == {"serial", "parallel"}

\* the ids given to the entries, in document order
IdPool ==
    << "N1", "N2", "N3", "N4", "N5", "N6", "N7", "N8", "N9", "N10", "N11", "N12",
       "N13", "N14" >>

\* the lists of at most n entries taken from S
EntryLists(S, n) == UNION {[1..k -> S] : k \in 0..n}

\* the entries whose blocks nest at most depth deep, ids not yet given
RECURSIVE ShapeEntries(_)
ShapeEntries(depth) ==
    IF depth = 0 THEN {Playbook("-")}
    ELSE {Playbook("-")}
            \cup {Block("-", s, l) : s \in Strategies,
                                     l \in EntryLists(ShapeEntries(depth - 1), MaxBlockLen)}

\* the number of entries of a list, nested ones included
RECURSIVE CountEntries(_)
CountEntries(entries) ==
    IF entries = << >> THEN 0
    ELSE 1 + CountEntries(Head(entries).block) + CountEntries(Tail(entries))

\* the list with one id given to every entry
RECURSIVE WithIdsReused(_, _)
WithIdsReused(entries, next) ==
    IF entries = << >> THEN << >>
    ELSE LET e == Head(entries)
         IN  << [e EXCEPT !.id = IdPool[1], !.block = WithIdsReused(e.block, next)] >>
                \o WithIdsReused(Tail(entries), next)

\* the list with the ids IdPool[next], IdPool[next + 1], ... in document order
RECURSIVE WithIds(_, _)
WithIds(entries, next) ==
    IF entries = << >> THEN << >>
    ELSE LET e == Head(entries)
             inner == CountEntries(e.block)
         IN  << [e EXCEPT !.id = IdPool[next], !.block = WithIds(e.block, next + 1)] >>
                \o WithIds(Tail(entries), next + 1 + inner)

GeneratedDeclarations ==
    { WithIds(l, 1) :
        l \in { t \in EntryLists(ShapeEntries(MaxNesting), MaxTopLen) :
                  CountEntries(t) <= Len(IdPool) } }

(* ---------------------------------------------------------------------- *)
(* State                                                                   *)
(* ---------------------------------------------------------------------- *)
VARIABLES
    declaration,     \* AnsibleWorkflow.__input_file_data: the declaration loaded
    graph,           \* AnsibleWorkflow.__graph and the node types of __data
    req,             \* the WorkflowStartRequest: filter_nodes, skip_nodes, start, end
    skipped_nodes,   \* AnsibleWorkflow.__skipped_nodes
    running_status,  \* AnsibleWorkflow.__running_status
    content,         \* content of the last WORKFLOW_EVENT
    running_nodes,   \* AnsibleWorkflow.__running_nodes (a list)
    stopped,         \* AnsibleWorkflow.__stopped
    skipped,         \* Node.__skipped of every node
    job,             \* PNode.__thread / __runner: none, alive, ok, failed
    pc,              \* position of the engine task inside run()
    snapshot,        \* rest of list(self.__running_nodes) in __run_step
    edges,           \* rest of graph.out_edges(node_id) in __run_step
    rpc,             \* position of the request handler holding workflow_lock
    nskip,           \* skip_node requests accepted so far
    nrestart,        \* restart_node requests accepted so far
    launched_by,     \* history: which operation launched the node's last job
    failed_seen,     \* history: the node's job failed and no restart_node followed
    last,            \* history: the launch or the ENDED verdict of the step just taken
    valid_inputs,    \* the Playbook nodes whose check_node_input() succeeds
    data,            \* AnsibleWorkflow.__data: node id -> number of the node object
    outcome,         \* the last add_node / add_link call: operation, id, origin, result
    nadd,            \* add_node and add_link calls made so far
    artifact_dir,    \* the names of the entries of the artifact directory
    picked,          \* per thread: the PNode.run it is in, after the ident is chosen
    launches,        \* history: ident of every job launched, and whether it existed
    listening,       \* AnsibleWorkflow.__listeners holds a listener
    events,          \* per Playbook node: the NODE_EVENTs the listener received
    telemetry,       \* per node: _started_time and _ended_time, as set or not and
                     \* in which order
    pc2,             \* position of a second, concurrent caller of run()
    snapshot2,       \* its rest of list(self.__running_nodes) in __run_step
    edges2,          \* its rest of graph.out_edges(node_id) in __run_step
    nloops,          \* history: how often a run() call reached its while loop
    nstart,          \* history: how often run() appended the start node
    \* the Pyro control server (server.py)
    workflow,        \* WorkflowController.workflow: NoWorkflow or the stored instance
    workflow_status, \* what the stored instance's get_workflow_status() returns
    daemon,          \* the Pyro daemon: "serving" or "shutdown"
    calls,           \* per client: the load_workflow call it has in progress
    reply,           \* the last reply sent: client, operation, result
    nloads,          \* instances constructed so far
    loaded_ok,       \* history: a load succeeded and no restart_workflow followed
    stdout,          \* per instance: the stdout file of its Playbook node
    tailed,          \* history: the instance loaded when stream_log started, or 0
    offset,          \* stream_log: offset
    log,             \* the contents stream_log received, concatenated
    returned,        \* history: the last tail_playbook_output reply
    npolls,          \* tail_playbook_output calls made so far
    watch,           \* watch_stdout: position, file, last_pos, the text written
    \* the HTTP control service (service.py)
    current_workflow, \* the global current_workflow: 0 (None) or an instance number
    instances,       \* per instance number: workflow file, status, engine task
    process,         \* the service process: "serving" or "terminated"
    response         \* the last HTTP response: operation, status code, body

\* the stdout files and their readers
tailvars == << stdout, tailed, offset, log, returned, npolls, watch >>

\* the engine and its request handlers
workflowvars ==
    << declaration, graph, req, skipped_nodes, running_status, content, running_nodes, stopped,
       skipped, job, pc, snapshot, edges, rpc, nskip, nrestart, launched_by,
       failed_seen, last, valid_inputs, data, outcome, nadd, artifact_dir, picked,
       launches, listening, events, telemetry >>

\* a second thread inside run() of the same workflow object
callvars == << pc2, snapshot2, edges2, nloops, nstart >>

\* the engine, and the files its jobs write
enginevars == << workflowvars, tailvars, callvars >>

\* the Pyro control server
controllervars == << workflow, workflow_status, daemon, calls, reply, nloads, loaded_ok >>

\* the Pyro control server with the files it serves
ctlvars == << controllervars, tailvars >>

\* the HTTP control service
svcvars == << current_workflow, instances, process, response >>

\* the construction of the workflow object: add_node, add_link
buildvars == << data, outcome, nadd >>

\* what the listeners and the clients observe of the nodes
obsvars == << events, telemetry >>

\* PNode.run and the artifact directory
launchvars == << artifact_dir, picked, launches >>

\* what no thread inside run() touches
outervars ==
    << declaration, valid_inputs, listening, buildvars, launchvars, ctlvars, svcvars >>

\* what the engine task of one workflow never touches after it entered its loop
hostvars == << outervars, callvars >>

vars == << enginevars, ctlvars, svcvars >>

Idle == <<"idle", "-">>

Nodes == SeqSet(graph.nodes)
PNodes == graph.pnodes
EdgeSeq == graph.edges

RECURSIVE SeqMap1(_, _)
SeqMap1(s, k) ==
    IF s = << >> THEN << >> ELSE <<Head(s)[k]>> \o SeqMap1(Tail(s), k)

EdgeFrom(n, e) == e[1] = n
EdgeTo(n, e) == e[2] = n

\* graph.out_edges(n): the successors of n, in insertion order
out_edges(n) ==
    LET from(e) == EdgeFrom(n, e) IN SeqMap1(SelectSeq(EdgeSeq, from), 2)

\* graph.in_edges(n): the predecessors of n, in insertion order
in_edges(n) ==
    LET to(e) == EdgeTo(n, e) IN SeqMap1(SelectSeq(EdgeSeq, to), 1)

is_node_present(n) == n \in Nodes

Preds(n) == SeqSet(in_edges(n))
Succs(n) == SeqSet(out_edges(n))

RECURSIVE Closure(_, _, _)
Closure(front, seen, dir) ==
    IF front = {} THEN seen
    ELSE LET nxt == UNION {IF dir = 1 THEN Preds(x) ELSE Succs(x) : x \in front}
         IN  Closure(nxt \ seen, seen \cup nxt, dir)

\* transitive predecessors and transitive successors in the execution graph
Ancestors(n) == Closure({n}, {}, 1)
Descendants(n) == Closure({n}, {}, 2)

\* AnsibleWorkflow.is_valid with no check at all
is_valid_unchecked == TRUE

\* AnsibleWorkflow.is_valid: every Playbook node passes check_node_input and
\* nx.find_cycle finds no cycle
is_valid ==
    /\ \A n \in PNodes : n \in valid_inputs
    /\ ~\E n \in Nodes : n \in Descendants(n)

\* last: no launch and no ENDED verdict in the step just taken
NoEvent == <<"none", "-">>

(* ---------------------------------------------------------------------- *)
(* Node model                                                              *)
(* ---------------------------------------------------------------------- *)
\* BNode.get_status / PNode.get_status
get_status(n) ==
    IF n \notin PNodes THEN "ended"
    ELSE IF skipped[n] THEN "skipped"
    ELSE IF job[n] = "none" THEN "not_started"
    ELSE IF job[n] = "alive" THEN "running"
    ELSE IF job[n] = "failed" THEN "failed"
    ELSE "ended"

Terminal == {"ended", "skipped"}

\* is_node_runnable with a failed predecessor counted as finished
is_node_runnable_failed_counts(n) ==
    \A p \in SeqSet(in_edges(n)) : get_status(p) \in {"ended", "skipped", "failed"}

\* AnsibleWorkflow.is_node_runnable
is_node_runnable(n) ==
    \A p \in SeqSet(in_edges(n)) : get_status(p) \in Terminal

\* AnsibleWorkflow.is_running
is_running == Len(running_nodes) # 0

\* AnsibleWorkflow.get_some_failed_task
get_some_failed_task ==
    \E n \in Nodes : get_status(n) \notin Terminal

\* list.remove(x): drops the first occurrence
RECURSIVE remove(_, _)
remove(s, x) ==
    IF s = << >> THEN << >>
    ELSE IF Head(s) = x THEN Tail(s)
    ELSE <<Head(s)>> \o remove(Tail(s), x)

(* ---------------------------------------------------------------------- *)
(* Pruning                                                                 *)
(* ---------------------------------------------------------------------- *)
\* set_filtered_nodes with the filter list dropped
set_filtered_nodes_ignored(graph_nodes, current, filter_nodes) == current

\* AnsibleWorkflow.set_filtered_nodes
set_filtered_nodes(graph_nodes, current, filter_nodes) ==
    IF Cardinality(filter_nodes) > 0 THEN graph_nodes \ filter_nodes ELSE current

\* AnsibleWorkflow.set_skipped_nodes
set_skipped_nodes(current, skip_nodes) ==
    IF Cardinality(skip_nodes) > 0 THEN skip_nodes ELSE current

\* the two while loops of _set_skipped_nodes: pop the last element of the
\* work list, mark it, push its neighbours (dir = 1: predecessors,
\* dir = 2: successors)
RECURSIVE skip_walk(_, _, _)
skip_walk(stack, marked, dir) ==
    IF Len(stack) = 0 THEN marked
    ELSE LET actual == stack[Len(stack)]
             rest == SubSeq(stack, 1, Len(stack) - 1)
             more == IF dir = 1 THEN in_edges(actual) ELSE out_edges(actual)
         IN  skip_walk(rest \o more, marked \cup {actual}, dir)

\* AnsibleWorkflow._set_skipped_nodes: the nodes whose skip flag it sets
set_skipped_nodes_for_run(start_node, end_node) ==
    skipped_nodes
        \cup skip_walk(in_edges(start_node), {}, 1)
        \cup skip_walk(out_edges(end_node), {}, 2)

(* ---------------------------------------------------------------------- *)
(* Initial state: start_workflow has loaded the workflow, applied the      *)
(* filter and skip lists and scheduled run() as a background task          *)
(* ---------------------------------------------------------------------- *)
FilterChoices == {{}, {"P1"}, {"P1", "P3"}}
\* an id that names no node of any declaration of the model
UnknownId == "X"
SkipChoices == {{}, {"P1"}, {"P2"}, {"P1", UnknownId}}
StartChoices == {"_s", "P1"}
EndChoices == {"_e"}

Requests ==
    [filter_nodes : FilterChoices, skip_nodes : SkipChoices,
     start_node : StartChoices, end_node : EndChoices]

\* outcome: no add_node or add_link call made yet
NoCall == << "-", "-", "-", "-" >>

\* the threads that call PNode.run: the engine task (__run_step, run) and
\* the thread of a restart request (restart_failed_node)
Threads == {"engine", "handler"}

\* picked: the thread is not inside PNode.run
NoPick == << "-", "-" >>

\* no job launched yet, an empty artifact directory
LaunchInit ==
    /\ artifact_dir = {}
    /\ picked = [t \in Threads |-> NoPick]
    /\ launches = << >>

\* Node.__init__: _started_time and _ended_time are None
NoTelemetry == [started |-> "none", ended |-> "none"]

\* WorkflowController.workflow is None
NoWorkflow == [path |-> "-", id |-> 0]

\* instances constructed during one behaviour
MaxLoads == 2

\* bytes a job writes to its stdout file
MaxFileLen == 2

\* tail_playbook_output calls of one stream_log worker
MaxPolls == 4

\* the numbers of the instances: the loads of both clients may be past the
\* test of self.workflow when the last one allowed is constructed
InstanceIds == 1..(MaxLoads + 1)

\* a stdout file that was not created yet
NoFile == [exists |-> FALSE, len |-> 0]

\* no tail_playbook_output call was made: content, offset, the file existed
NoReply == << << >>, 0, FALSE >>

\* watch_stdout was not started
NoWatch == [pc |-> "idle", file |-> 0, last_pos |-> 0, stdout_log |-> << >>]

\* no job has written, no client reads
TailInit ==
    /\ stdout = [i \in InstanceIds |-> NoFile]
    /\ tailed = 0
    /\ offset = 0
    /\ log = << >>
    /\ returned = NoReply
    /\ npolls = 0
    /\ watch = NoWatch

\* no second caller has entered run()
CallInit ==
    /\ pc2 = "idle"
    /\ snapshot2 = << >>
    /\ edges2 = << >>
    /\ nloops = 0
    /\ nstart = 0

\* the Pyro control server right after start_server: no workflow loaded
ControllerInit ==
    /\ TailInit
    /\ workflow = NoWorkflow
    /\ workflow_status = "-"
    /\ daemon = "serving"
    /\ calls = [c \in {"c1", "c2"} |-> "idle"]
    /\ reply = << "-", "-", "-" >>
    /\ nloads = 0
    /\ loaded_ok = FALSE

\* the HTTP control service right after import: current_workflow is None
ServiceInit ==
    /\ current_workflow = 0
    /\ instances = << >>
    /\ process = "serving"
    /\ response = << "-", 0, "-" >>

\* the workflow d loaded for the request r; ok: the Playbook nodes whose
\* playbook, inventory and project path exist
InitWorkflow(d, r, ok) ==
    /\ declaration = d
    /\ graph = compile(d)
    /\ data = [n \in SeqSet(compile(d).nodes) |->
                  CHOOSE i \in 1..Len(compile(d).nodes) : compile(d).nodes[i] = n]
    /\ outcome = NoCall
    /\ nadd = 0
    /\ LaunchInit
    /\ valid_inputs = ok
    /\ ControllerInit
    /\ ServiceInit
    /\ CallInit
    /\ req = r
    /\ skipped_nodes =
          set_skipped_nodes(
              set_filtered_nodes(SeqSet(compile(d).nodes), {}, r.filter_nodes),
              r.skip_nodes)
    /\ running_status = "not_started"
    /\ content = ""
    /\ running_nodes = << >>
    /\ stopped = FALSE
    /\ skipped = [n \in SeqSet(compile(d).nodes) |-> FALSE]
    /\ job = [n \in compile(d).pnodes |-> "none"]
    /\ pc = "init"
    /\ snapshot = << >>
    /\ edges = << >>
    /\ rpc = Idle
    /\ nskip = 0
    /\ nrestart = 0
    /\ launched_by = [n \in compile(d).pnodes |-> "none"]
    /\ failed_seen = [n \in compile(d).pnodes |-> FALSE]
    /\ last = NoEvent
    /\ events = [n \in compile(d).pnodes |-> << >>]
    /\ telemetry = [n \in SeqSet(compile(d).nodes) |-> NoTelemetry]

\* the same under the HTTP service, which registers no listener
InitEngine(d, r, ok) ==
    /\ InitWorkflow(d, r, ok)
    /\ listening = FALSE

InitWith(d, r) == InitEngine(d, r, compile(d).pnodes)

Init == \E r \in Requests : InitWith(DeclFanOut, r)

(* ---------------------------------------------------------------------- *)
(* The engine task: AnsibleWorkflow.run                                    *)
(* ---------------------------------------------------------------------- *)
\* notify_event(NODE_EVENT, ...) for node n, once per entry of evs: every
\* registered listener receives the event
notify_event(n, evs) ==
    IF listening THEN [events EXCEPT ![n] = @ \o evs] ELSE events

\* Node.set_started_time(datetime.now()): an _ended_time the node still has
\* is older than the new _started_time
set_started_time(tel, n) ==
    [tel EXCEPT ![n] = [started |-> "set",
                        ended |-> IF @.ended = "none" THEN "none" ELSE "before_start"]]

\* Node.set_ended_time(datetime.now())
set_ended_time(tel, n) == [tel EXCEPT ![n].ended = "after_start"]

\* PNode.run as called through run_node: a new job replaces the handle
run_node(n, by) ==
    /\ job' = [job EXCEPT ![n] = "alive"]
    /\ launched_by' = [launched_by EXCEPT ![n] = by]

\* run(), from its entry to the first test of the while loop
RunInit ==
    /\ pc = "init"
    /\ IF ~is_valid
       THEN /\ running_status' = "failed"
            /\ content' = "not valid"
            /\ pc' = "done"
            /\ last' = NoEvent
            /\ UNCHANGED << running_nodes, skipped, job, launched_by >>
       ELSE IF running_status # "not_started"
       THEN /\ pc' = "done"
            /\ last' = NoEvent
            /\ UNCHANGED << running_status, content, running_nodes, skipped,
                            job, launched_by >>
       ELSE IF ~is_node_present(req.start_node)
       THEN /\ running_status' = "failed"
            /\ content' = "start node not exist"
            /\ pc' = "done"
            /\ last' = NoEvent
            /\ UNCHANGED << running_nodes, skipped, job, launched_by >>
       ELSE IF ~(skipped_nodes \subseteq Nodes)
       THEN \* _set_skipped_nodes: get_node_object of an id that is not in the
            \* data map raises KeyError; the entries of the list before it are
            \* already marked; run() ends with the exception
            /\ \E marked \in SUBSET (skipped_nodes \cap Nodes) :
                   skipped' = [n \in Nodes |-> skipped[n] \/ n \in marked]
            /\ pc' = "done"
            /\ last' = NoEvent
            /\ UNCHANGED << running_status, content, running_nodes, job,
                            launched_by >>
       ELSE /\ skipped' =
                 [n \in Nodes |->
                     skipped[n]
                     \/ n \in set_skipped_nodes_for_run(req.start_node, req.end_node)]
            /\ running_status' = "running"
            /\ content' = "start"
            /\ running_nodes' = Append(running_nodes, req.start_node)
            /\ IF req.start_node \in PNodes
               THEN /\ run_node(req.start_node, "start")
                    /\ last' = <<"launch", req.start_node>>
               ELSE /\ UNCHANGED << job, launched_by >>
                    /\ last' = NoEvent
            /\ pc' = "loop"
    \* run() notifies RUNNING for a Playbook start node, then run_node does
    /\ IF pc' = "loop" /\ req.start_node \in PNodes
       THEN /\ events' = notify_event(req.start_node, << "running", "running" >>)
            /\ telemetry' = set_started_time(telemetry, req.start_node)
       ELSE UNCHANGED obsvars
    /\ nloops' = IF pc' = "loop" THEN nloops + 1 ELSE nloops
    /\ nstart' = IF pc' = "loop" THEN nstart + 1 ELSE nstart
    /\ UNCHANGED << outervars, pc2, snapshot2, edges2 >>
    /\ UNCHANGED << graph, req, skipped_nodes, stopped, snapshot, edges, rpc, nskip,
                    nrestart, failed_seen >>

\* `while not self.__stopped`, and what follows the loop when the test fails
EngLoopTest ==
    /\ pc = "loop"
    /\ IF stopped
       THEN /\ pc' = "done"
            /\ IF running_status # "ended"
               THEN running_status' = "failed" /\ content' = "stopped"
               ELSE UNCHANGED << running_status, content >>
            /\ UNCHANGED snapshot
            /\ last' = NoEvent
       ELSE /\ pc' = "step"
            /\ snapshot' = running_nodes
            /\ UNCHANGED << running_status, content >>
            /\ last' = NoEvent
    /\ UNCHANGED << hostvars, obsvars >>
    /\ UNCHANGED << graph, req, skipped_nodes, running_nodes, stopped, skipped, job,
                    edges, rpc, nskip, nrestart, launched_by, failed_seen >>

\* __run_step: one iteration of `for node_id in list(self.__running_nodes)`,
\* up to the loop over the out edges
EngVisit ==
    /\ pc = "step"
    /\ snapshot # << >>
    /\ LET node_id == Head(snapshot) IN
       /\ snapshot' = Tail(snapshot)
       /\ last' = NoEvent
       /\ IF get_status(node_id) \in Terminal
          THEN /\ running_nodes' = remove(running_nodes, node_id)
               /\ edges' = out_edges(node_id)
               /\ pc' = IF out_edges(node_id) = << >> THEN "step" ELSE "edges"
          ELSE IF get_status(node_id) = "failed"
          THEN /\ running_nodes' = remove(running_nodes, node_id)
               /\ UNCHANGED << edges, pc >>
          ELSE UNCHANGED << running_nodes, edges, pc >>
       /\ IF get_status(node_id) \in Terminal /\ ~skipped[node_id]
          THEN /\ telemetry' = set_ended_time(telemetry, node_id)
               /\ events' = IF node_id \in PNodes
                             THEN notify_event(node_id, << "ended" >>)
                             ELSE events
          ELSE IF get_status(node_id) = "failed"
          THEN /\ telemetry' = set_ended_time(telemetry, node_id)
               /\ events' = notify_event(node_id, << "failed" >>)
          ELSE UNCHANGED obsvars
    /\ UNCHANGED hostvars
    /\ UNCHANGED << graph, req, skipped_nodes, running_status, content, stopped,
                    skipped, job, rpc, nskip, nrestart, launched_by,
                    failed_seen >>

\* __run_step: the two tests that guard the launch of one successor
can_enqueue(next_node_id) ==
    /\ is_node_runnable(next_node_id)
    /\ next_node_id \notin SeqSet(running_nodes)
    /\ next_node_id # req.end_node
    /\ ~stopped

EngEdge ==
    /\ pc = "edges"
    /\ edges # << >>
    /\ last' = NoEvent
    /\ IF can_enqueue(Head(edges))
       THEN /\ pc' = "launch"
            /\ UNCHANGED edges
       ELSE /\ edges' = Tail(edges)
            /\ pc' = IF Tail(edges) = << >> THEN "step" ELSE "edges"
    /\ UNCHANGED << hostvars, obsvars >>
    /\ UNCHANGED << graph, req, skipped_nodes, running_status, content, running_nodes,
                    stopped, skipped, job, snapshot, rpc, nskip, nrestart,
                    launched_by, failed_seen >>

\* __run_step: append the successor, then run it or report it skipped
EngLaunch ==
    /\ pc = "launch"
    /\ LET next_node_id == Head(edges) IN
       /\ running_nodes' = Append(running_nodes, next_node_id)
       /\ IF next_node_id \in PNodes /\ ~skipped[next_node_id]
          THEN /\ run_node(next_node_id, "step")
               /\ last' = <<"launch", next_node_id>>
          ELSE /\ UNCHANGED << job, launched_by >>
               /\ last' = NoEvent
       /\ IF next_node_id \notin PNodes
          THEN UNCHANGED obsvars
          ELSE IF ~skipped[next_node_id]
          THEN /\ events' = notify_event(next_node_id, << "pre_running", "running" >>)
               /\ telemetry' = set_started_time(telemetry, next_node_id)
          ELSE /\ events' = notify_event(next_node_id, << "pre_running", "skipped" >>)
               /\ UNCHANGED telemetry
    /\ edges' = Tail(edges)
    /\ pc' = IF Tail(edges) = << >> THEN "step" ELSE "edges"
    /\ UNCHANGED hostvars
    /\ UNCHANGED << graph, req, skipped_nodes, running_status, content, stopped,
                    skipped, snapshot, rpc, nskip, nrestart, failed_seen >>

\* run(): `if not self.is_running()` after the step
EngCheckRunning ==
    /\ pc = "step"
    /\ snapshot = << >>
    /\ pc' = IF is_running THEN "loop" ELSE "settle"
    /\ last' = NoEvent
    /\ UNCHANGED << hostvars, obsvars >>
    /\ UNCHANGED << graph, req, skipped_nodes, running_status, content, running_nodes,
                    stopped, skipped, job, snapshot, edges, rpc, nskip,
                    nrestart, launched_by, failed_seen >>

\* run(): `if self.get_some_failed_task()` and the status it sets
EngSettle ==
    /\ pc = "settle"
    /\ IF get_some_failed_task
       THEN /\ running_status' = "failed"
            /\ content' = "waiting for retry"
            /\ pc' = "loop"
            /\ last' = NoEvent
       ELSE /\ running_status' = "ended"
            /\ content' = "end"
            /\ pc' = "done"
            /\ last' = <<"set_ended", "-">>
    /\ UNCHANGED << hostvars, obsvars >>
    /\ UNCHANGED << graph, req, skipped_nodes, running_nodes, stopped, skipped, job,
                    snapshot, edges, rpc, nskip, nrestart, launched_by,
                    failed_seen >>

Engine ==
    \/ RunInit
    \/ EngLoopTest
    \/ EngVisit
    \/ EngEdge
    \/ EngLaunch
    \/ EngCheckRunning
    \/ EngSettle

(* ---------------------------------------------------------------------- *)
(* The job runner: a job in flight finishes with success or failure        *)
(* ---------------------------------------------------------------------- *)
JobOk(n) ==
    /\ job[n] = "alive"
    /\ job' = [job EXCEPT ![n] = "ok"]
    /\ last' = NoEvent
    /\ UNCHANGED << hostvars, obsvars >>
    /\ UNCHANGED << graph, req, skipped_nodes, running_status, content, running_nodes,
                    stopped, skipped, pc, snapshot, edges, rpc, nskip, nrestart,
                    launched_by, failed_seen >>

JobFail(n) ==
    /\ job[n] = "alive"
    /\ job' = [job EXCEPT ![n] = "failed"]
    /\ failed_seen' = [failed_seen EXCEPT ![n] = TRUE]
    /\ last' = NoEvent
    /\ UNCHANGED << hostvars, obsvars >>
    /\ UNCHANGED << graph, req, skipped_nodes, running_status, content, running_nodes,
                    stopped, skipped, pc, snapshot, edges, rpc, nskip, nrestart,
                    launched_by >>

(* ---------------------------------------------------------------------- *)
(* The request handlers of the service (each holds workflow_lock)          *)
(* ---------------------------------------------------------------------- *)
\* POST /workflow/stop
stop_workflow ==
    /\ rpc = Idle
    /\ running_status = "running"
    /\ ~stopped
    /\ stopped' = TRUE
    /\ last' = NoEvent
    /\ UNCHANGED << hostvars, obsvars >>
    /\ UNCHANGED << graph, req, skipped_nodes, running_status, content, running_nodes,
                    skipped, job, pc, snapshot, edges, rpc, nskip, nrestart,
                    launched_by, failed_seen >>

\* POST /workflow/node/{id}/skip: node_obj.set_skipped()
skip_node(n) ==
    /\ rpc = Idle
    /\ nskip < MaxSkipReq
    /\ nskip' = nskip + 1
    /\ skipped' = [skipped EXCEPT ![n] = TRUE]
    /\ rpc' = <<"skip_add", n>>
    /\ last' = NoEvent
    /\ UNCHANGED << hostvars, obsvars >>
    /\ UNCHANGED << graph, req, skipped_nodes, running_status, content, running_nodes,
                    stopped, job, pc, snapshot, edges, nrestart, launched_by,
                    failed_seen >>

\* POST /workflow/node/{id}/skip: current_workflow.add_running_node(node_id)
skip_node_add ==
    /\ rpc[1] = "skip_add"
    /\ running_nodes' = Append(running_nodes, rpc[2])
    /\ rpc' = Idle
    /\ last' = NoEvent
    /\ UNCHANGED << hostvars, obsvars >>
    /\ UNCHANGED << graph, req, skipped_nodes, running_status, content, stopped,
                    skipped, job, pc, snapshot, edges, nskip, nrestart,
                    launched_by, failed_seen >>

\* restart_failed_node with the status test left out
can_restart_any(n) == TRUE

\* restart_failed_node: `node.get_status() != NodeStatus.FAILED` is false
can_restart(n) == get_status(n) = "failed"

\* restart_failed_node: the status test and `__running_status = RUNNING`
restart_failed_node(n) ==
    /\ rpc = Idle
    /\ nrestart < MaxRestartReq
    /\ n \in PNodes
    /\ can_restart(n)
    /\ nrestart' = nrestart + 1
    /\ running_status' = "running"
    /\ content' = "resuming"
    /\ failed_seen' = [failed_seen EXCEPT ![n] = FALSE]
    /\ rpc' = <<"restart_run", n>>
    /\ last' = NoEvent
    /\ UNCHANGED << hostvars, obsvars >>
    /\ UNCHANGED << graph, req, skipped_nodes, running_nodes, stopped, skipped, job,
                    pc, snapshot, edges, nskip, launched_by >>

\* restart_failed_node for a node that cannot be restarted: the warning
\* and the return
restart_refused(n) ==
    /\ rpc = Idle
    /\ ~can_restart(n)
    /\ last' = <<"restart_refused", n>>
    /\ UNCHANGED << hostvars, obsvars >>
    /\ UNCHANGED << graph, req, skipped_nodes, running_status, content, running_nodes,
                    stopped, skipped, job, pc, snapshot, edges, rpc, nskip, nrestart,
                    launched_by, failed_seen >>

\* restart_failed_node: node.reset_status() and self.run_node(node_id)
restart_run ==
    /\ rpc[1] = "restart_run"
    /\ run_node(rpc[2], "restart")
    /\ rpc' = <<"restart_add", rpc[2]>>
    /\ last' = <<"launch", rpc[2]>>
    /\ events' = notify_event(rpc[2], << "running" >>)
    \* reset_status is not among the sources: taken to clear the two times
    /\ telemetry' = set_started_time([telemetry EXCEPT ![rpc[2]] = NoTelemetry], rpc[2])
    /\ UNCHANGED hostvars
    /\ UNCHANGED << graph, req, skipped_nodes, running_status, content, running_nodes,
                    stopped, skipped, pc, snapshot, edges, nskip, nrestart,
                    failed_seen >>

\* restart_failed_node: self.add_running_node(node_id)
restart_add ==
    /\ rpc[1] = "restart_add"
    /\ running_nodes' = Append(running_nodes, rpc[2])
    /\ rpc' = Idle
    /\ last' = NoEvent
    /\ UNCHANGED << hostvars, obsvars >>
    /\ UNCHANGED << graph, req, skipped_nodes, running_status, content, stopped,
                    skipped, job, pc, snapshot, edges, nskip, nrestart,
                    launched_by, failed_seen >>

Next ==
    \/ Engine
    \/ \E n \in PNodes : JobOk(n)
    \/ \E n \in PNodes : JobFail(n)
    \/ stop_workflow
    \/ \E n \in Nodes : skip_node(n)
    \/ skip_node_add
    \/ \E n \in PNodes : restart_failed_node(n)
    \/ restart_run
    \/ restart_add

Spec == Init /\ [][Next]_vars

(* ---------------------------------------------------------------------- *)
(* The engine with an event listener registered (the user interfaces of    *)
(* output.py call add_event_listener): the NODE_EVENTs of every Playbook   *)
(* node are recorded in the order notify_event delivers them               *)
(* ---------------------------------------------------------------------- *)
EventRequests ==
    [filter_nodes : {{}}, skip_nodes : {{}, {"P1"}},
     start_node : StartChoices, end_node : EndChoices]

InitEvents ==
    \E r \in EventRequests :
        /\ InitWorkflow(DeclFanOut, r, compile(DeclFanOut).pnodes)
        /\ listening = TRUE

SpecEvents == InitEvents /\ [][Next]_vars

(* ---------------------------------------------------------------------- *)
(* Runs from the default start to the default end in which every job       *)
(* succeeds and the operator sends no request: every declaration of the    *)
(* model, every filter set over its Playbook nodes and every skip set     *)
(* over its Playbook nodes and one id that names no node.                  *)
(* The engine task keeps running and every job in flight finishes.         *)
(* ---------------------------------------------------------------------- *)
InitDefault ==
    \E d \in Declarations :
        \E f \in SUBSET compile(d).pnodes,
           s \in SUBSET (compile(d).pnodes \cup {UnknownId}) :
            InitWith(d, [filter_nodes |-> f, skip_nodes |-> s,
                         start_node |-> "_s", end_node |-> "_e"])

NextSuccess ==
    \/ Engine
    \/ \E n \in PNodes : JobOk(n)

SpecSuccess ==
    /\ InitDefault
    /\ [][NextSuccess]_vars
    /\ WF_vars(Engine)
    /\ \A n \in AllIds : WF_vars(n \in PNodes /\ JobOk(n))

(* ---------------------------------------------------------------------- *)
(* run() called again on a workflow whose first run() has begun (the       *)
(* method is public: WorkflowController.run calls it on every request),    *)
(* and run() with a start node, an end node or Playbook inputs that do not *)
(* exist                                                                   *)
(* ---------------------------------------------------------------------- *)
\* a further run(start_node, end_node, verify_only), up to the status test:
\* with a status other than NOT_STARTED it returns or raises there
run_again(verify_only) ==
    /\ pc # "init"
    /\ running_status # "not_started"
    /\ IF ~is_valid
       THEN /\ running_status' = "failed"
            /\ content' = "not valid"
       ELSE IF verify_only
       THEN /\ running_status' = "ended"
            /\ UNCHANGED content
       ELSE UNCHANGED << running_status, content >>
    /\ last' = <<"run_call", "-">>
    /\ UNCHANGED << hostvars, obsvars >>
    /\ UNCHANGED << graph, req, skipped_nodes, running_nodes, stopped, skipped, job,
                    pc, snapshot, edges, rpc, nskip, nrestart, launched_by,
                    failed_seen >>

RunStartChoices == {"_s", "P1", UnknownId}
RunEndChoices == {"_e", UnknownId}

InitRunCalls ==
    \E start \in RunStartChoices, end \in RunEndChoices,
       ok \in {compile(DeclFanOut).pnodes, compile(DeclFanOut).pnodes \ {"P2"}} :
        InitEngine(DeclFanOut,
                   [filter_nodes |-> {}, skip_nodes |-> {},
                    start_node |-> start, end_node |-> end],
                   ok)

NextRunCalls ==
    \/ Engine
    \/ \E n \in PNodes : JobOk(n)
    \/ \E n \in PNodes : JobFail(n)
    \/ \E verify_only \in BOOLEAN : run_again(verify_only)

SpecRunCalls == InitRunCalls /\ [][NextRunCalls]_vars

(* ---------------------------------------------------------------------- *)
(* The pruning pass of run(): every declaration of the model, every start  *)
(* node and every end node among its nodes, every skip list over its       *)
(* Playbook nodes and one id that names no node                            *)
(* ---------------------------------------------------------------------- *)
InitPrune ==
    \E d \in Declarations :
        \E start \in SeqSet(compile(d).nodes), end \in SeqSet(compile(d).nodes),
           s \in SUBSET (compile(d).pnodes \cup {UnknownId}) :
            InitWith(d, [filter_nodes |-> {}, skip_nodes |-> s,
                         start_node |-> start, end_node |-> end])

NextPrune == RunInit

SpecPrune == InitPrune /\ [][NextPrune]_vars

(* ---------------------------------------------------------------------- *)
(* Runs with a start node or an end node other than the sentinels, on      *)
(* every declaration of the model, with no filter and no skip list: every  *)
(* job succeeds and the operator sends no request. The engine task keeps   *)
(* running and every job in flight finishes.                               *)
(* ---------------------------------------------------------------------- *)
InitStartEnd ==
    \E d \in Declarations :
        \E start \in SeqSet(compile(d).nodes) \ {"_e"},
           end \in SeqSet(compile(d).nodes) \ {"_s"} :
            /\ start # "_s" \/ end # "_e"
            /\ InitWith(d, [filter_nodes |-> {}, skip_nodes |-> {},
                            start_node |-> start, end_node |-> end])

SpecStartEnd ==
    /\ InitStartEnd
    /\ [][NextSuccess]_vars
    /\ WF_vars(Engine)
    /\ \A n \in AllIds : WF_vars(n \in PNodes /\ JobOk(n))

(* ---------------------------------------------------------------------- *)
(* The operator skips the failed node: runs from the default start to the  *)
(* default end on every declaration of the model, in which one job fails,  *)
(* the engine comes to wait for the operator and the operator sends        *)
(* skip_node for the FAILED node. Every other job succeeds; the engine     *)
(* task keeps running, every job in flight finishes and a request that     *)
(* has begun completes.                                                    *)
(* ---------------------------------------------------------------------- *)
\* the failed, awaiting-operator state: the runnable set is empty and run()
\* has reported FAILED and waits in its loop
AwaitingOperator ==
    /\ running_status = "failed"
    /\ pc # "done"
    /\ ~is_running

\* the job of n fails, the first and only failure of the run
JobFailOnce(n) ==
    /\ \A m \in PNodes : job[m] # "failed"
    /\ nskip = 0
    /\ JobFail(n)

\* POST /workflow/node/{id}/skip for the FAILED node of a waiting workflow
skip_failed_node(n) ==
    /\ AwaitingOperator
    /\ get_status(n) = "failed"
    /\ skip_node(n)

InitSkipResume ==
    \E d \in Declarations :
        InitWith(d, [filter_nodes |-> {}, skip_nodes |-> {},
                     start_node |-> "_s", end_node |-> "_e"])

NextSkipResume ==
    \/ Engine
    \/ \E n \in PNodes : JobOk(n)
    \/ \E n \in PNodes : JobFailOnce(n)
    \/ \E n \in PNodes : skip_failed_node(n)
    \/ skip_node_add

SpecSkipResume ==
    /\ InitSkipResume
    /\ [][NextSkipResume]_vars
    /\ WF_vars(Engine)
    /\ WF_vars(skip_node_add)
    /\ \A n \in AllIds : WF_vars(n \in PNodes /\ JobOk(n))

\* the same with the request and the engine task excluding each other, as
\* if run() held workflow_lock during every turn of its loop: the request is
\* served between two turns, and no turn begins before it has completed
NextSkipResumeLocked ==
    \/ rpc = Idle /\ Engine
    \/ \E n \in PNodes : JobOk(n)
    \/ \E n \in PNodes : JobFailOnce(n)
    \/ \E n \in PNodes : pc = "loop" /\ skip_failed_node(n)
    \/ skip_node_add

SpecSkipResumeLocked ==
    /\ InitSkipResume
    /\ [][NextSkipResumeLocked]_vars
    /\ WF_vars(rpc = Idle /\ Engine)
    /\ WF_vars(skip_node_add)
    /\ \A n \in AllIds : WF_vars(n \in PNodes /\ JobOk(n))

(* ---------------------------------------------------------------------- *)
(* restart_node requests for any node, FAILED or not, during runs from     *)
(* the default start to the default end, with and without a skip list      *)
(* ---------------------------------------------------------------------- *)
InitRestart ==
    \E sk \in {{}, {"P2"}} :
        InitWith(DeclFanOut, [filter_nodes |-> {}, skip_nodes |-> sk,
                              start_node |-> "_s", end_node |-> "_e"])

NextRestart ==
    \/ Engine
    \/ \E n \in PNodes : JobOk(n)
    \/ \E n \in PNodes : JobFail(n)
    \/ \E n \in Nodes : restart_failed_node(n)
    \/ \E n \in Nodes : restart_refused(n)
    \/ restart_run
    \/ restart_add

SpecRestart == InitRestart /\ [][NextRestart]_vars

(* ---------------------------------------------------------------------- *)
(* A stop request followed by restart_node: POST /workflow/stop makes the  *)
(* loop of run() exit, POST /workflow/node/{id}/restart is still served.   *)
(* The engine task takes its steps, every handler completes and every job  *)
(* finishes.                                                               *)
(* ---------------------------------------------------------------------- *)
NextStopRestart ==
    \/ Engine
    \/ \E n \in PNodes : JobOk(n)
    \/ \E n \in PNodes : JobFail(n)
    \/ stop_workflow
    \/ \E n \in PNodes : restart_failed_node(n)
    \/ restart_run
    \/ restart_add

SpecStopRestart ==
    /\ Init
    /\ [][NextStopRestart]_vars
    /\ WF_vars(Engine)
    /\ WF_vars(restart_run)
    /\ WF_vars(restart_add)
    /\ \A n \in AllIds : WF_vars(n \in PNodes /\ JobOk(n))

(* ---------------------------------------------------------------------- *)
(* Two concurrent calls of run() on one workflow object: the Pyro daemon   *)
(* serves every client in a thread of its own and WorkflowController.run   *)
(* calls self.workflow.run() without a lock. The second caller is followed *)
(* statement by statement from the status test on; the first caller runs   *)
(* the prefix of run() in one step at any moment of that.                  *)
(* ---------------------------------------------------------------------- *)
\* list.remove(x) of an x that is no longer in the list raises ValueError
remove_raises(node_id) ==
    /\ get_status(node_id) \in Terminal \cup {"failed"}
    /\ node_id \notin SeqSet(running_nodes)

\* the second caller: run() from its entry through the status test and the
\* test of the start node
run2_test ==
    /\ pc2 = "idle"
    /\ IF ~is_valid
       THEN /\ running_status' = "failed"
            /\ content' = "not valid"
            /\ pc2' = "returned"
       ELSE IF running_status # "not_started"
       THEN /\ pc2' = IF running_status = "running" THEN "returned" ELSE "raised"
            /\ UNCHANGED << running_status, content >>
       ELSE IF ~is_node_present(req.start_node)
       THEN /\ running_status' = "failed"
            /\ content' = "start node not exist"
            /\ pc2' = "returned"
       ELSE /\ pc2' = "tested"
            /\ UNCHANGED << running_status, content >>
    /\ last' = NoEvent
    /\ UNCHANGED << outervars, obsvars, pc, snapshot, edges, snapshot2, edges2,
                    nloops, nstart >>
    /\ UNCHANGED << graph, req, skipped_nodes, running_nodes, stopped, skipped, job,
                    rpc, nskip, nrestart, launched_by, failed_seen >>

\* the second caller: _set_skipped_nodes, the status RUNNING, the start node
\* appended and launched, up to the first test of the while loop
run2_begin ==
    /\ pc2 = "tested"
    /\ skipped_nodes \subseteq Nodes
    /\ skipped' =
         [n \in Nodes |->
             skipped[n]
             \/ n \in set_skipped_nodes_for_run(req.start_node, req.end_node)]
    /\ running_status' = "running"
    /\ content' = "start"
    /\ running_nodes' = Append(running_nodes, req.start_node)
    /\ IF req.start_node \in PNodes
       THEN /\ run_node(req.start_node, "start")
            /\ last' = <<"launch", req.start_node>>
            /\ events' = notify_event(req.start_node, << "running", "running" >>)
            /\ telemetry' = set_started_time(telemetry, req.start_node)
       ELSE /\ UNCHANGED << job, launched_by >>
            /\ last' = NoEvent
            /\ UNCHANGED obsvars
    /\ pc2' = "loop"
    /\ nloops' = nloops + 1
    /\ nstart' = nstart + 1
    /\ UNCHANGED << outervars, pc, snapshot, edges, snapshot2, edges2 >>
    /\ UNCHANGED << graph, req, skipped_nodes, stopped, rpc, nskip, nrestart,
                    failed_seen >>

\* __run_step of either caller: the node it visits was removed from the
\* runnable set by the other one; remove raises and run() ends there
EngRaise ==
    /\ pc = "step"
    /\ snapshot # << >>
    /\ remove_raises(Head(snapshot))
    /\ pc' = "raised"
    /\ last' = NoEvent
    /\ IF get_status(Head(snapshot)) = "failed"
       THEN /\ telemetry' = set_ended_time(telemetry, Head(snapshot))
            /\ events' = notify_event(Head(snapshot), << "failed" >>)
       ELSE UNCHANGED obsvars
    /\ UNCHANGED hostvars
    /\ UNCHANGED << graph, req, skipped_nodes, running_status, content, running_nodes,
                    stopped, skipped, job, snapshot, edges, rpc, nskip, nrestart,
                    launched_by, failed_seen >>

EngRaise2 ==
    /\ pc2 = "step"
    /\ snapshot2 # << >>
    /\ remove_raises(Head(snapshot2))
    /\ pc2' = "raised"
    /\ last' = NoEvent
    /\ IF get_status(Head(snapshot2)) = "failed"
       THEN /\ telemetry' = set_ended_time(telemetry, Head(snapshot2))
            /\ events' = notify_event(Head(snapshot2), << "failed" >>)
       ELSE UNCHANGED obsvars
    /\ UNCHANGED << outervars, pc, snapshot, edges, nloops, nstart >>
    /\ UNCHANGED << graph, req, skipped_nodes, running_status, content, running_nodes,
                    stopped, skipped, job, snapshot2, edges2, rpc, nskip, nrestart,
                    launched_by, failed_seen >>

\* the loop of the first caller, where remove does not raise
EngineFirst ==
    /\ ~(pc = "step" /\ snapshot # << >> /\ remove_raises(Head(snapshot)))
    /\ Engine

\* the loop of the second caller: the steps of Engine on its own position
EngLoopTest2 ==
    /\ pc2 = "loop"
    /\ IF stopped
       THEN /\ pc2' = "done"
            /\ IF running_status # "ended"
               THEN running_status' = "failed" /\ content' = "stopped"
               ELSE UNCHANGED << running_status, content >>
            /\ UNCHANGED snapshot2
            /\ last' = NoEvent
       ELSE /\ pc2' = "step"
            /\ snapshot2' = running_nodes
            /\ UNCHANGED << running_status, content >>
            /\ last' = NoEvent
    /\ UNCHANGED << outervars, obsvars, pc, snapshot, edges, nloops, nstart >>
    /\ UNCHANGED << graph, req, skipped_nodes, running_nodes, stopped, skipped, job,
                    edges2, rpc, nskip, nrestart, launched_by, failed_seen >>

EngVisit2 ==
    /\ pc2 = "step"
    /\ snapshot2 # << >>
    /\ ~remove_raises(Head(snapshot2))
    /\ LET node_id == Head(snapshot2) IN
       /\ snapshot2' = Tail(snapshot2)
       /\ last' = NoEvent
       /\ IF get_status(node_id) \in Terminal
          THEN /\ running_nodes' = remove(running_nodes, node_id)
               /\ edges2' = out_edges(node_id)
               /\ pc2' = IF out_edges(node_id) = << >> THEN "step" ELSE "edges"
          ELSE IF get_status(node_id) = "failed"
          THEN /\ running_nodes' = remove(running_nodes, node_id)
               /\ UNCHANGED << edges2, pc2 >>
          ELSE UNCHANGED << running_nodes, edges2, pc2 >>
       /\ IF get_status(node_id) \in Terminal /\ ~skipped[node_id]
          THEN /\ telemetry' = set_ended_time(telemetry, node_id)
               /\ events' = IF node_id \in PNodes
                             THEN notify_event(node_id, << "ended" >>)
                             ELSE events
          ELSE IF get_status(node_id) = "failed"
          THEN /\ telemetry' = set_ended_time(telemetry, node_id)
               /\ events' = notify_event(node_id, << "failed" >>)
          ELSE UNCHANGED obsvars
    /\ UNCHANGED << outervars, pc, snapshot, edges, nloops, nstart >>
    /\ UNCHANGED << graph, req, skipped_nodes, running_status, content, stopped,
                    skipped, job, rpc, nskip, nrestart, launched_by,
                    failed_seen >>

EngEdge2 ==
    /\ pc2 = "edges"
    /\ edges2 # << >>
    /\ last' = NoEvent
    /\ IF can_enqueue(Head(edges2))
       THEN /\ pc2' = "launch"
            /\ UNCHANGED edges2
       ELSE /\ edges2' = Tail(edges2)
            /\ pc2' = IF Tail(edges2) = << >> THEN "step" ELSE "edges"
    /\ UNCHANGED << outervars, obsvars, pc, snapshot, edges, nloops, nstart >>
    /\ UNCHANGED << graph, req, skipped_nodes, running_status, content, running_nodes,
                    stopped, skipped, job, snapshot2, rpc, nskip, nrestart,
                    launched_by, failed_seen >>

EngLaunch2 ==
    /\ pc2 = "launch"
    /\ LET next_node_id == Head(edges2) IN
       /\ running_nodes' = Append(running_nodes, next_node_id)
       /\ IF next_node_id \in PNodes /\ ~skipped[next_node_id]
          THEN /\ run_node(next_node_id, "step")
               /\ last' = <<"launch", next_node_id>>
          ELSE /\ UNCHANGED << job, launched_by >>
               /\ last' = NoEvent
       /\ IF next_node_id \notin PNodes
          THEN UNCHANGED obsvars
          ELSE IF ~skipped[next_node_id]
          THEN /\ events' = notify_event(next_node_id, << "pre_running", "running" >>)
               /\ telemetry' = set_started_time(telemetry, next_node_id)
          ELSE /\ events' = notify_event(next_node_id, << "pre_running", "skipped" >>)
               /\ UNCHANGED telemetry
    /\ edges2' = Tail(edges2)
    /\ pc2' = IF Tail(edges2) = << >> THEN "step" ELSE "edges"
    /\ UNCHANGED << outervars, pc, snapshot, edges, nloops, nstart >>
    /\ UNCHANGED << graph, req, skipped_nodes, running_status, content, stopped,
                    skipped, snapshot2, rpc, nskip, nrestart, failed_seen >>

EngCheckRunning2 ==
    /\ pc2 = "step"
    /\ snapshot2 = << >>
    /\ pc2' = IF is_running THEN "loop" ELSE "settle"
    /\ last' = NoEvent
    /\ UNCHANGED << outervars, obsvars, pc, snapshot, edges, nloops, nstart >>
    /\ UNCHANGED << graph, req, skipped_nodes, running_status, content, running_nodes,
                    stopped, skipped, job, snapshot2, edges2, rpc, nskip,
                    nrestart, launched_by, failed_seen >>

EngSettle2 ==
    /\ pc2 = "settle"
    /\ IF get_some_failed_task
       THEN /\ running_status' = "failed"
            /\ content' = "waiting for retry"
            /\ pc2' = "loop"
            /\ last' = NoEvent
       ELSE /\ running_status' = "ended"
            /\ content' = "end"
            /\ pc2' = "done"
            /\ last' = <<"set_ended", "-">>
    /\ UNCHANGED << outervars, obsvars, pc, snapshot, edges, nloops, nstart >>
    /\ UNCHANGED << graph, req, skipped_nodes, running_nodes, stopped, skipped, job,
                    snapshot2, edges2, rpc, nskip, nrestart, launched_by,
                    failed_seen >>

EngineSecond ==
    \/ EngLoopTest2
    \/ EngVisit2
    \/ EngEdge2
    \/ EngLaunch2
    \/ EngCheckRunning2
    \/ EngSettle2

TwoRunsStarts == {"_s", "P1"}

InitTwoRuns ==
    \E start \in TwoRunsStarts :
        InitWith(DeclFanOut, [filter_nodes |-> {}, skip_nodes |-> {},
                             start_node |-> start, end_node |-> "_e"])

NextTwoRuns ==
    \/ EngineFirst
    \/ EngRaise
    \/ run2_test
    \/ run2_begin
    \/ EngineSecond
    \/ EngRaise2
    \/ \E n \in PNodes : JobOk(n)
    \/ \E n \in PNodes : JobFail(n)

SpecTwoRuns == InitTwoRuns /\ [][NextTwoRuns]_vars

(* ---------------------------------------------------------------------- *)
(* The Pyro control server: WorkflowController (server.py). The daemon     *)
(* serves every client connection in a thread of its own and the           *)
(* controller holds no lock, so a load_workflow call is two steps: the     *)
(* test of self.workflow, then the construction and the assignment.        *)
(* ---------------------------------------------------------------------- *)
Clients == {"c1", "c2"}
Paths == {"a.yml", "b.yml", "bad.yml"}
\* the workflow files whose construction raises
BadPaths == {"bad.yml"}

\* load_workflow, up to the test `if self.workflow`
load_workflow(c, path) ==
    /\ daemon = "serving"
    /\ calls[c] = "idle"
    /\ IF workflow # NoWorkflow
       THEN /\ reply' = << c, "load_workflow", "reconnected" >>
            /\ UNCHANGED calls
       ELSE /\ nloads < MaxLoads
            /\ calls' = [calls EXCEPT ![c] = path]
            /\ reply' = << c, "load_workflow", "loading" >>
    /\ UNCHANGED << workflow, workflow_status, daemon, nloads, loaded_ok >>
    /\ UNCHANGED << enginevars, svcvars >>

\* load_workflow, the try block: construct and store, or store None
load_workflow_construct(c) ==
    /\ daemon = "serving"
    /\ calls[c] # "idle"
    /\ calls' = [calls EXCEPT ![c] = "idle"]
    /\ IF calls[c] \in BadPaths
       THEN /\ workflow' = NoWorkflow
            /\ workflow_status' = "-"
            /\ reply' = << c, "load_workflow", "error" >>
            /\ UNCHANGED << nloads, loaded_ok >>
       ELSE /\ workflow' = [path |-> calls[c], id |-> nloads + 1]
            /\ workflow_status' = "not_started"
            /\ nloads' = nloads + 1
            /\ loaded_ok' = TRUE
            /\ reply' = << c, "load_workflow", "loaded" >>
    /\ UNCHANGED daemon
    /\ UNCHANGED << enginevars, svcvars >>

\* WorkflowController.get_workflow_status
get_workflow_status(c) ==
    /\ daemon = "serving"
    /\ reply' = << c, "get_workflow_status",
                   IF workflow = NoWorkflow THEN "no_workflow_loaded"
                   ELSE workflow_status >>
    /\ UNCHANGED << workflow, workflow_status, daemon, calls, nloads, loaded_ok >>
    /\ UNCHANGED << enginevars, svcvars >>

\* WorkflowController.run: the stored workflow starts running
controller_run(c) ==
    /\ daemon = "serving"
    /\ IF workflow = NoWorkflow
       THEN /\ reply' = << c, "run", "no_workflow_loaded" >>
            /\ UNCHANGED workflow_status
       ELSE /\ workflow_status' =
                 IF workflow_status = "not_started" THEN "running"
                 ELSE workflow_status
            /\ reply' = << c, "run", "ok" >>
    /\ UNCHANGED << workflow, daemon, calls, nloads, loaded_ok >>
    /\ UNCHANGED << enginevars, svcvars >>

\* the engine of the stored workflow: a running workflow ends or fails
\* (also the outcome of WorkflowController.stop)
WorkflowProgress ==
    /\ daemon = "serving"
    /\ workflow # NoWorkflow
    /\ workflow_status = "running"
    /\ workflow_status' \in {"ended", "failed"}
    /\ UNCHANGED << workflow, daemon, calls, reply, nloads, loaded_ok >>
    /\ UNCHANGED << enginevars, svcvars >>

\* WorkflowController.restart_workflow
restart_workflow(c) ==
    /\ daemon = "serving"
    /\ IF workflow # NoWorkflow /\ workflow_status = "running"
       THEN /\ reply' = << c, "restart_workflow", "refused" >>
            /\ UNCHANGED << workflow, workflow_status, loaded_ok >>
       ELSE /\ workflow' = NoWorkflow
            /\ workflow_status' = "-"
            /\ loaded_ok' = FALSE
            /\ reply' = << c, "restart_workflow", "cleared" >>
    /\ UNCHANGED << daemon, calls, nloads >>
    /\ UNCHANGED << enginevars, svcvars >>

\* WorkflowController.request_shutdown (one way: no reply)
request_shutdown(c) ==
    /\ daemon = "serving"
    /\ daemon' =
          IF workflow # NoWorkflow /\ workflow_status \in {"ended", "failed", "stopped"}
          THEN "shutdown"
          ELSE "serving"
    /\ reply' = << c, "request_shutdown", "-" >>
    /\ UNCHANGED << workflow, workflow_status, calls, nloads, loaded_ok >>
    /\ UNCHANGED << enginevars, svcvars >>

NextController ==
    \/ \E c \in Clients, path \in Paths : load_workflow(c, path)
    \/ \E c \in Clients : load_workflow_construct(c)
    \/ \E c \in Clients : get_workflow_status(c)
    \/ \E c \in Clients : controller_run(c)
    \/ WorkflowProgress
    \/ \E c \in Clients : restart_workflow(c)
    \/ \E c \in Clients : request_shutdown(c)

\* the engine variables play no part here and keep their initial values
InitController ==
    InitWith(DeclSerial, [filter_nodes |-> {}, skip_nodes |-> {},
                          start_node |-> "_s", end_node |-> "_e"])

SpecController == InitController /\ [][NextController]_vars

(* ---------------------------------------------------------------------- *)
(* The stdout files and their readers: tail_playbook_output as the Pyro    *)
(* client's stream_log worker calls it, and watch_stdout of the textual    *)
(* output, which reads the file itself. One Playbook node is followed: it  *)
(* runs while its workflow is running, and its job only appends.           *)
(* ---------------------------------------------------------------------- *)
\* the content of the stdout file of instance i: the k-th byte of every file
\* is a value of its own
FileBytes(i) == [k \in 1..stdout[i].len |-> << i, k >>]

\* the text "No workflow loaded.", which is no byte of any file
NoWorkflowLoaded == << << 0, 0 >> >>

\* ansible_runner.run_async: the job creates the stdout file below the
\* artifact directory and appends to it while the node runs
job_writes ==
    /\ workflow # NoWorkflow
    /\ workflow_status = "running"
    /\ stdout[workflow.id].exists => stdout[workflow.id].len < MaxFileLen
    /\ stdout' = [stdout EXCEPT ![workflow.id] =
                     IF @.exists THEN [@ EXCEPT !.len = @ + 1]
                     ELSE [exists |-> TRUE, len |-> 0]]
    /\ UNCHANGED << tailed, offset, log, returned, npolls, watch >>
    /\ UNCHANGED << workflowvars, callvars, controllervars, svcvars >>

\* AnsibleWorkflow.tail_playbook_output of instance i: the bytes from off to
\* the end of the file and the position of the end; no file: empty, 0
AnsibleWorkflow_tail_playbook_output(i, off) ==
    IF stdout[i].exists
    THEN << SubSeq(FileBytes(i), off + 1, stdout[i].len), stdout[i].len, TRUE >>
    ELSE << << >>, 0, FALSE >>

\* WorkflowController.tail_playbook_output: content, offset, and whether a
\* file was there to read
tail_playbook_output(off) ==
    IF workflow = NoWorkflow
    THEN << NoWorkflowLoaded, 0, FALSE >>
    ELSE AnsibleWorkflow_tail_playbook_output(workflow.id, off)

\* on_tree_node_selected for a Playbook node of the tree built after
\* load_workflow: the stream_log worker starts, offset = 0
stream_log_start ==
    /\ daemon = "serving"
    /\ workflow # NoWorkflow
    /\ tailed = 0
    /\ tailed' = workflow.id
    /\ offset' = 0
    /\ log' = << >>
    /\ UNCHANGED << stdout, returned, npolls, watch >>
    /\ UNCHANGED << workflowvars, callvars, controllervars, svcvars >>

\* stream_log: one turn of the loop
stream_log ==
    /\ daemon = "serving"
    /\ tailed # 0
    /\ npolls < MaxPolls
    /\ npolls' = npolls + 1
    /\ returned' = tail_playbook_output(offset)
    /\ log' = log \o returned'[1]
    /\ offset' = returned'[2]
    /\ UNCHANGED << stdout, tailed, watch >>
    /\ UNCHANGED << workflowvars, callvars, controllervars, svcvars >>

\* node.get_status() == NodeStatus.RUNNING for the node of instance i
node_running(i) == workflow # NoWorkflow /\ workflow.id = i /\ workflow_status = "running"

\* watch_stdout: seek(last_pos), read, and tell() if something was read
read_new(w) ==
    IF stdout[w.file].exists /\ w.last_pos < stdout[w.file].len
    THEN [w EXCEPT !.stdout_log =
                       @ \o SubSeq(FileBytes(w.file), w.last_pos + 1, stdout[w.file].len),
                   !.last_pos = stdout[w.file].len]
    ELSE w

\* watch_stdout up to the loop: the path of the file is fixed, last_pos = 0
watch_stdout_start ==
    /\ watch.pc = "idle"
    /\ workflow # NoWorkflow
    /\ watch' = [pc |-> "loop", file |-> workflow.id, last_pos |-> 0, stdout_log |-> << >>]
    /\ UNCHANGED << stdout, tailed, offset, log, returned, npolls >>
    /\ UNCHANGED << workflowvars, callvars, controllervars, svcvars >>

\* watch_stdout: one test of the while condition, and the body
watch_stdout_loop ==
    /\ watch.pc = "loop"
    /\ watch' = IF node_running(watch.file) THEN read_new(watch)
                ELSE [watch EXCEPT !.pc = "final"]
    /\ UNCHANGED << stdout, tailed, offset, log, returned, npolls >>
    /\ UNCHANGED << workflowvars, callvars, controllervars, svcvars >>

\* watch_stdout: the final read
watch_stdout_final ==
    /\ watch.pc = "final"
    /\ watch' = [read_new(watch) EXCEPT !.pc = "done"]
    /\ UNCHANGED << stdout, tailed, offset, log, returned, npolls >>
    /\ UNCHANGED << workflowvars, callvars, controllervars, svcvars >>

\* one client: it loads, runs and restarts, and it reads
NextTail ==
    \/ \E path \in Paths : load_workflow("c1", path)
    \/ load_workflow_construct("c1")
    \/ controller_run("c1")
    \/ WorkflowProgress
    \/ restart_workflow("c1")
    \/ job_writes
    \/ stream_log_start
    \/ stream_log
    \/ watch_stdout_start
    \/ watch_stdout_loop
    \/ watch_stdout_final

SpecTail == InitController /\ [][NextTail]_vars

(* ---------------------------------------------------------------------- *)
(* The HTTP control service (service.py) seen from outside the engine:     *)
(* the workflow instances it creates, the engine task of each, and the     *)
(* global current_workflow. Every handler runs under workflow_lock; the    *)
(* engine tasks run in the background.                                     *)
(* ---------------------------------------------------------------------- *)
\* workflow instances created during one behaviour
MaxInstances == 3

WorkflowFiles == Paths \cup {"invalid.yml"}
\* files whose parse raises AnsibleWorkflowLoadingError or UndefinedError
LoadingErrorFiles == BadPaths
\* files whose parse raises an exception start_workflow does not catch
UncaughtErrorFiles == {"invalid.yml"}

\* current_workflow.get_running_status()
get_running_status == instances[current_workflow].status

\* the instances whose engine task is scheduled or running
LiveTasks == {i \in 1..Len(instances) : instances[i].task \in {"scheduled", "alive"}}

\* POST /workflow
start_workflow(file) ==
    /\ process = "serving"
    /\ IF current_workflow # 0 /\ get_running_status \in {"running", "ended"}
       THEN /\ response' =
                 IF instances[current_workflow].file = file
                 THEN << "start_workflow", 200, "reconnected" >>
                 ELSE << "start_workflow", 409, "different workflow" >>
            /\ UNCHANGED << current_workflow, instances >>
       ELSE IF file \in UncaughtErrorFiles
       THEN /\ response' = << "start_workflow", 500, "error" >>
            /\ UNCHANGED << current_workflow, instances >>
       ELSE /\ Len(instances) < MaxInstances
            /\ IF file \in LoadingErrorFiles
               THEN /\ instances' =
                         Append(instances,
                                [file |-> file, status |-> "failed", task |-> "none"])
                    /\ response' = << "start_workflow", 200, "load failed" >>
               ELSE /\ instances' =
                         Append(instances,
                                [file |-> file, status |-> "not_started",
                                 task |-> "scheduled"])
                    /\ response' = << "start_workflow", 200, "running" >>
            /\ current_workflow' = Len(instances) + 1
    /\ UNCHANGED process
    /\ UNCHANGED << enginevars, ctlvars >>

\* GET /workflow
service_status ==
    /\ process = "serving"
    /\ response' = << "get_workflow_status", 200,
                      IF current_workflow = 0 THEN "not_started"
                      ELSE get_running_status >>
    /\ UNCHANGED << current_workflow, instances, process >>
    /\ UNCHANGED << enginevars, ctlvars >>

\* the background task of instance i enters run(): the validation or the
\* start node check fails and run() returns, or the loop starts
EngineTaskStart(i) ==
    /\ process = "serving"
    /\ instances[i].task = "scheduled"
    /\ \/ instances' = [instances EXCEPT ![i].status = "running",
                                          ![i].task = "alive"]
       \/ instances' = [instances EXCEPT ![i].status = "failed",
                                          ![i].task = "exited"]
    /\ UNCHANGED << current_workflow, process, response >>
    /\ UNCHANGED << enginevars, ctlvars >>

\* run(): the runnable set drained with a failed node; the loop waits
EngineTaskFail(i) ==
    /\ process = "serving"
    /\ instances[i].task = "alive"
    /\ instances[i].status = "running"
    /\ instances' = [instances EXCEPT ![i].status = "failed"]
    /\ UNCHANGED << current_workflow, process, response >>
    /\ UNCHANGED << enginevars, ctlvars >>

\* run(): the runnable set drained with no failed node; ENDED and break
EngineTaskEnd(i) ==
    /\ process = "serving"
    /\ instances[i].task = "alive"
    /\ instances[i].status = "running"
    /\ instances' = [instances EXCEPT ![i].status = "ended", ![i].task = "exited"]
    /\ UNCHANGED << current_workflow, process, response >>
    /\ UNCHANGED << enginevars, ctlvars >>

\* POST /shutdown
shutdown ==
    /\ process = "serving"
    /\ IF current_workflow # 0 /\ get_running_status = "running"
       THEN /\ response' = << "shutdown", 409, "running" >>
            /\ UNCHANGED process
       ELSE /\ response' = << "shutdown", 200, "shutting down" >>
            /\ process' = "terminated"
    /\ UNCHANGED << current_workflow, instances >>
    /\ UNCHANGED << enginevars, ctlvars >>

NextService ==
    \/ \E file \in WorkflowFiles : start_workflow(file)
    \/ service_status
    \/ \E i \in 1..MaxInstances : i <= Len(instances) /\ EngineTaskStart(i)
    \/ \E i \in 1..MaxInstances : i <= Len(instances) /\ EngineTaskFail(i)
    \/ \E i \in 1..MaxInstances : i <= Len(instances) /\ EngineTaskEnd(i)
    \/ shutdown

\* the engine variables play no part here and keep their initial values
InitService ==
    InitWith(DeclSerial, [filter_nodes |-> {}, skip_nodes |-> {},
                          start_node |-> "_s", end_node |-> "_e"])

SpecService == InitService /\ [][NextService]_vars

(* ---------------------------------------------------------------------- *)
(* The graph compiler alone: AnsibleWorkflow.__init__ imports a            *)
(* declaration and compiles it.  Nothing runs.                             *)
(* ---------------------------------------------------------------------- *)
Loaded == graph # EmptyGraph

\* AnsibleWorkflow.__init__: __import_file, then _import_nodes
import_declaration ==
    /\ ~Loaded
    /\ graph' = compile(declaration)
    /\ UNCHANGED << hostvars, obsvars >>
    /\ UNCHANGED << req, skipped_nodes, running_status, content, running_nodes,
                    stopped, skipped, job, pc, snapshot, edges, rpc, nskip, nrestart,
                    launched_by, failed_seen, last >>

\* the fields of a workflow object that has not run, and the idle servers
EngineIdle ==
    /\ valid_inputs = {}
    /\ listening = FALSE
    /\ ControllerInit
    /\ ServiceInit
    /\ CallInit
    /\ req = [filter_nodes |-> {}, skip_nodes |-> {},
              start_node |-> "_s", end_node |-> "_e"]
    /\ skipped_nodes = {}
    /\ running_status = "not_started"
    /\ content = ""
    /\ running_nodes = << >>
    /\ stopped = FALSE
    /\ skipped = << >>
    /\ job = << >>
    /\ pc = "init"
    /\ snapshot = << >>
    /\ edges = << >>
    /\ rpc = Idle
    /\ nskip = 0
    /\ nrestart = 0
    /\ launched_by = << >>
    /\ failed_seen = << >>
    /\ last = NoEvent
    /\ events = << >>
    /\ telemetry = << >>

\* the workflow object with an empty graph and an empty data map
InitUnloaded ==
    /\ graph = EmptyGraph
    /\ data = << >>
    /\ outcome = NoCall
    /\ nadd = 0
    /\ LaunchInit
    /\ EngineIdle

InitCompile ==
    /\ declaration \in GeneratedDeclarations
    /\ InitUnloaded

NextCompile == import_declaration

SpecCompile == InitCompile /\ [][NextCompile]_vars

\* the ids of an entry and of everything nested in it
RECURSIVE SubtreeIds(_)
SubtreeIds(e) ==
    {e.id} \cup UNION {SubtreeIds(e.block[i]) : i \in 1..Len(e.block)}

\* the levels of a declaration: a list of sibling entries, the strategy
\* that composes them and the block that holds them
RECURSIVE LevelsOf(_, _, _)
LevelsOf(entries, strategy, parent) ==
    {[strategy |-> strategy, entries |-> entries, parent |-> parent]}
        \cup UNION {LevelsOf(entries[i].block, entries[i].strategy, entries[i].id) :
                        i \in 1..Len(entries)}

\* the top level is the declaration between the sentinels, composed serially
Levels == LevelsOf(import_file(declaration), "serial", "-")

\* the nodes of an entry's subtree without successor inside the subtree
Frontier(e) ==
    {x \in SubtreeIds(e) : Succs(x) \cap SubtreeIds(e) = {}}

\* the Playbook nodes of an entry's subtree
PlaybooksIn(e) == SubtreeIds(e) \cap PNodes

\* the blocks without entry, the two sentinels apart
EmptyBlocks ==
    {e.id : e \in {x \in UNION {SeqSet(l.entries) : l \in Levels} :
                     x.kind = "block" /\ x.block = << >>}} \ {"_s", "_e"}

\* every entry of the declaration, the sentinels included
Entries == UNION {SeqSet(l.entries) : l \in Levels}

(* ---------------------------------------------------------------------- *)
(* The construction interface of the engine: a loader adds the nodes and   *)
(* the links of a workflow one call at a time, in any order                *)
(* (AnsibleWorkflow.add_node, add_link of engine.py)                       *)
(* ---------------------------------------------------------------------- *)
MaxAddCalls == 4

ReservedIds == {"_s", "_e", "_root"}
\* the ids of the model that contain a comma
CommaIds == {"a,b"}
BuildIds == ReservedIds \cup CommaIds \cup {"P1", "P2"}

\* `',' in node.get_id()`
has_comma(id) == id \in CommaIds

\* add_node: the test that guards the raise
add_node_rejects(id) ==
    \/ is_node_present(id) /\ id \in DOMAIN data
    \/ has_comma(id)

\* AnsibleWorkflow.add_node(node); origin: who supplies the node, the
\* declaration ("user") or the loader itself ("sentinel")
AnsibleWorkflow_add_node(id, origin) ==
    /\ nadd < MaxAddCalls
    /\ nadd' = nadd + 1
    /\ IF add_node_rejects(id)
       THEN /\ outcome' = << "add_node", id, origin, "DuplicateNodeId" >>
            /\ UNCHANGED << graph, data >>
       ELSE /\ graph' = graph_add_node(graph, id)
            /\ data' = [n \in DOMAIN data \cup {id} |->
                           IF n = id THEN nadd + 1 ELSE data[n]]
            /\ outcome' = << "add_node", id, origin, "added" >>
    /\ UNCHANGED << declaration, valid_inputs, listening, launchvars, obsvars >>
    /\ UNCHANGED << ctlvars, svcvars, callvars >>
    /\ UNCHANGED << req, skipped_nodes, running_status, content, running_nodes,
                    stopped, skipped, job, pc, snapshot, edges, rpc, nskip, nrestart,
                    launched_by, failed_seen, last >>

\* AnsibleWorkflow.add_link: the graph adds the end points it does not have
AnsibleWorkflow_add_link(node_id, next_node_id) ==
    /\ nadd < MaxAddCalls
    /\ nadd' = nadd + 1
    /\ graph' = add_link(graph, node_id, next_node_id)
    /\ outcome' = << "add_link", node_id, "-", "added" >>
    /\ UNCHANGED data
    /\ UNCHANGED << declaration, valid_inputs, listening, launchvars, obsvars >>
    /\ UNCHANGED << ctlvars, svcvars, callvars >>
    /\ UNCHANGED << req, skipped_nodes, running_status, content, running_nodes,
                    stopped, skipped, job, pc, snapshot, edges, rpc, nskip, nrestart,
                    launched_by, failed_seen, last >>

InitBuild ==
    /\ declaration = << >>
    /\ InitUnloaded

NextBuild ==
    \/ \E id \in BuildIds : AnsibleWorkflow_add_node(id, "user")
    \/ \E id \in {"_s", "_e"} : AnsibleWorkflow_add_node(id, "sentinel")
    \/ \E u, v \in {"_s", "_e", "P1", "P2"} : AnsibleWorkflow_add_link(u, v)

SpecBuild == InitBuild /\ [][NextBuild]_vars

(* ---------------------------------------------------------------------- *)
(* PNode.run and the artifact directory.  The engine task launches nodes   *)
(* from __run_step without the service's workflow_lock while a restart     *)
(* request launches a node from its own thread, so two calls of PNode.run, *)
(* also of one node, can overlap.  PNode.run first chooses the ident from  *)
(* what the directory holds, then ansible_runner creates the directory of  *)
(* that ident and starts the job.                                          *)
(* ---------------------------------------------------------------------- *)
MaxLaunches == 3

\* node ids; the second one reads like a retry of the first
LaunchIds == {"P", "P_1"}

\* "%s_%s" % (id, i) for i = 1, 2, ...
IdentNames ==
    [ P   |-> << "P_1", "P_2", "P_3", "P_4", "P_5", "P_6" >>,
      P_1 |-> << "P_1_1", "P_1_2", "P_1_3", "P_1_4", "P_1_5", "P_1_6" >> ]

ident_format(id, i) == IdentNames[id][i]

\* os.path.exists(os.path.join(artifact_dir, name))
path_exists(name) == name \in artifact_dir

\* the while loop of PNode.run: the first i from i on whose name is free
RECURSIVE first_free(_, _)
first_free(id, i) ==
    IF path_exists(ident_format(id, i)) THEN first_free(id, i + 1) ELSE i

\* PNode.run: `ident = self.get_id()` and the search of a free name
choose_ident(id) ==
    IF path_exists(id) THEN ident_format(id, first_free(id, 1)) ELSE id

\* what the artifact directory holds before the workflow runs
ArtifactDirChoices == SUBSET {"P", "P_1", "P_2"}

\* PNode.run up to `self.ident = ident`; a restart request runs a node that
\* was launched before (restart_failed_node: its status is FAILED)
PNode_run(t, id) ==
    /\ picked[t] = NoPick
    /\ t = "handler" => \E i \in 1..Len(launches) : launches[i][1] = id
    /\ Len(launches) + Cardinality({u \in Threads : picked[u] # NoPick}) < MaxLaunches
    /\ picked' = [picked EXCEPT ![t] = << id, choose_ident(id) >>]
    /\ UNCHANGED << artifact_dir, launches >>
    /\ UNCHANGED << declaration, valid_inputs, listening, buildvars, obsvars >>
    /\ UNCHANGED << ctlvars, svcvars, callvars >>
    /\ UNCHANGED << graph, req, skipped_nodes, running_status, content, running_nodes,
                    stopped, skipped, job, pc, snapshot, edges, rpc, nskip, nrestart,
                    launched_by, failed_seen, last >>

\* PNode.run: ansible_runner.run_async(ident=ident, artifact_dir=...) creates
\* the directory of the ident and starts the job
run_async(t) ==
    /\ picked[t] # NoPick
    /\ launches' = Append(launches, << picked[t][1], picked[t][2],
                                       path_exists(picked[t][2]) >>)
    /\ artifact_dir' = artifact_dir \cup {picked[t][2]}
    /\ picked' = [picked EXCEPT ![t] = NoPick]
    /\ UNCHANGED << declaration, valid_inputs, listening, buildvars, obsvars >>
    /\ UNCHANGED << ctlvars, svcvars, callvars >>
    /\ UNCHANGED << graph, req, skipped_nodes, running_status, content, running_nodes,
                    stopped, skipped, job, pc, snapshot, edges, rpc, nskip, nrestart,
                    launched_by, failed_seen, last >>

InitLaunch ==
    /\ declaration = << >>
    /\ graph = EmptyGraph
    /\ data = << >>
    /\ outcome = NoCall
    /\ nadd = 0
    /\ artifact_dir \in ArtifactDirChoices
    /\ picked = [t \in Threads |-> NoPick]
    /\ launches = << >>
    /\ EngineIdle

NextLaunch ==
    \/ \E t \in Threads, id \in LaunchIds : PNode_run(t, id)
    \/ \E t \in Threads : run_async(t)

SpecLaunch == InitLaunch /\ [][NextLaunch]_vars

\* the launches of a single thread: every PNode.run ends before the next begins
NextLaunchOneThread ==
    \/ \E id \in LaunchIds : PNode_run("engine", id)
    \/ run_async("engine")

SpecLaunchOneThread == InitLaunch /\ [][NextLaunchOneThread]_vars

(* ---------------------------------------------------------------------- *)
(* Vocabulary of the properties                                            *)
(* ---------------------------------------------------------------------- *)
\* pruned before the run: outside a non-empty filter set, in the skip set,
\* before the start node or after the end node
Pruned(n) ==
    \/ req.filter_nodes # {} /\ n \notin req.filter_nodes
    \/ n \in req.skip_nodes
    \/ n \in Ancestors(req.start_node)
    \/ n \in Descendants(req.end_node)

\* the step just taken started a job of node n
Launched(n) == last = <<"launch", n>>

InFlight(n) == job[n] = "alive"

(* ---------------------------------------------------------------------- *)
(* C1: whenever a Playbook node is launched (by a scheduling step, as the  *)
(* start node of run(), or by restart_node), every predecessor of it has   *)
(* status ENDED or SKIPPED.                                                *)
(* ---------------------------------------------------------------------- *)
LaunchAfterPredecessors ==
    \A n \in PNodes :
        Launched(n) => \A p \in Preds(n) : get_status(p) \in Terminal

(* ---------------------------------------------------------------------- *)
(* C2: a Playbook node pruned before the run is never launched, for every  *)
(* combination of filter set, skip set, start node and end node.           *)
(* ---------------------------------------------------------------------- *)
PrunedNeverLaunched ==
    \A n \in PNodes : Launched(n) => ~Pruned(n)

(* ---------------------------------------------------------------------- *)
(* C3: once stop() has been called, no Playbook node is launched by any    *)
(* operation: a scheduling step or restart_node (the stop flag is never    *)
(* cleared, so a launch in a state where it is set is a launch after the   *)
(* stop).                                                                  *)
(* ---------------------------------------------------------------------- *)
NoLaunchAfterStop ==
    \A n \in PNodes : Launched(n) => ~stopped

(* ---------------------------------------------------------------------- *)
(* C4: after a graceful stop the workflow is set to FAILED with the        *)
(* 'stopped' content only once the runnable set has drained and no job is  *)
(* in flight.                                                              *)
(* ---------------------------------------------------------------------- *)
StoppedOnlyAfterDrain ==
    (running_status = "failed" /\ content = "stopped")
        => (~is_running /\ \A n \in PNodes : ~InFlight(n))

(* ---------------------------------------------------------------------- *)
(* C6: after restart_node on the FAILED node of a workflow awaiting the    *)
(* operator (no stop, no skip_node), the workflow status is RUNNING for as *)
(* long as the relaunched job is in flight.                                *)
(* ---------------------------------------------------------------------- *)
RunningWhileRestartedJobInFlight ==
    \A n \in PNodes :
        (InFlight(n) /\ launched_by[n] = "restart" /\ ~stopped /\ nskip = 0)
            => running_status = "running"

(* ---------------------------------------------------------------------- *)
(* C7: no Playbook node has status ENDED after its job failed unless       *)
(* restart_node was called for it since the failure.                       *)
(* ---------------------------------------------------------------------- *)
NoEndedAfterFailedWithoutRestart ==
    \A n \in PNodes : get_status(n) = "ended" => ~failed_seen[n]

(* ---------------------------------------------------------------------- *)
(* C8: a Playbook node whose status is ENDED or SKIPPED keeps that status  *)
(* in every later state.                                                   *)
(* ---------------------------------------------------------------------- *)
TerminalStatusKept ==
    [][\A n \in PNodes :
          get_status(n) \in Terminal => get_status(n)' = get_status(n)]_vars

(* ---------------------------------------------------------------------- *)
(* C9: when the run sets the workflow status to ENDED, the runnable set is *)
(* empty and every node has status ENDED or SKIPPED.                       *)
(* ---------------------------------------------------------------------- *)
EndedOnlyWhenAllDone ==
    last = <<"set_ended", "-">>
        => (~is_running /\ \A n \in Nodes : get_status(n) \in Terminal)

(* ---------------------------------------------------------------------- *)
(* C5: a Playbook node fails while peers run.                              *)
(* ---------------------------------------------------------------------- *)
NoOperatorRequest == nskip = 0 /\ nrestart = 0 /\ ~stopped

FailedNodeBlocksSuccessors ==
    \A f \in PNodes :
        (get_status(f) = "failed" /\ NoOperatorRequest)
            => /\ \A m \in Descendants(f) \cap PNodes :
                      /\ job[m] = "none"
                      /\ get_status(m) \in {"not_started", "skipped"}
               /\ pc # "done"
               /\ running_status # "ended"
               /\ (pc = "loop" /\ ~is_running) => running_status = "failed"

\* the peers of a failed node run to their own terminal status: a job in
\* flight is only ever ended by the job runner, with success or failure
PeersRunToCompletion ==
    [][\A n \in PNodes :
          (InFlight(n) /\ ~InFlight(n)') => job'[n] \in {"ok", "failed"}]_vars

EventuallyEnded == <>(running_status = "ended" /\ pc = "done")

\* the same, for the runs whose skip set names only nodes of the graph
EventuallyEndedKnownIds ==
    (req.skip_nodes \subseteq Nodes) => EventuallyEnded

(* ---------------------------------------------------------------------- *)
(* C11: with a non-empty filter set F alone (no skip set) and the default  *)
(* start and end nodes, only Playbook nodes of F are ever launched, every  *)
(* other Playbook node has status SKIPPED once run() has pruned the graph, *)
(* and when the jobs succeed the workflow ends ENDED with exactly the      *)
(* Playbook nodes of F launched.                                           *)
(* ---------------------------------------------------------------------- *)
FilterOnly == req.filter_nodes # {} /\ req.skip_nodes = {}

EverLaunched == {n \in PNodes : launched_by[n] # "none"}

OnlyFilteredLaunched ==
    FilterOnly =>
        /\ EverLaunched \subseteq req.filter_nodes
        /\ pc # "init" =>
               \A n \in PNodes \ req.filter_nodes : get_status(n) = "skipped"

FilteredRunEnded ==
    /\ running_status = "ended"
    /\ pc = "done"
    /\ EverLaunched = PNodes \cap req.filter_nodes

RunnableSetHasNoDuplicate ==
    \A i, j \in 1..Len(running_nodes) :
        i # j => running_nodes[i] # running_nodes[j]

(* ---------------------------------------------------------------------- *)
(* C13: restart_node, skip_node and stop take effect atomically with       *)
(* respect to the engine task: no request changes the runnable set, a      *)
(* node's job or skip flag, or the workflow status while a scheduling step *)
(* or the empty-runnable-set check is in progress, and the engine takes no *)
(* step while a request is half done.                                      *)
(* ---------------------------------------------------------------------- *)
\* the engine is inside __run_step or between `not self.is_running()` and
\* the status it sets
EngineBusy == pc \in {"step", "edges", "launch", "settle"}

\* a step of a request handler (every one of them moves rpc or sets the flag)
HandlerStep == rpc' # rpc \/ stopped' # stopped

\* a step of the engine task
EngineStep == <<pc, snapshot, edges>>' # <<pc, snapshot, edges>>

RequestsAtomic ==
    [][/\ (HandlerStep /\ <<running_nodes, skipped, job, running_status>>'
                           # <<running_nodes, skipped, job, running_status>>)
              => ~EngineBusy
       /\ EngineStep => rpc = Idle]_vars

(* ---------------------------------------------------------------------- *)
(* C14: on the Pyro control server, once a load_workflow has succeeded and *)
(* no restart_workflow followed, every load_workflow call made from then   *)
(* on returns the reconnect reply and leaves the stored instance and its   *)
(* status unchanged.                                                       *)
(* ---------------------------------------------------------------------- *)
LoadAfterLoadReconnects ==
    [][(loaded_ok /\ \E c \in Clients, path \in Paths : load_workflow(c, path))
          => (/\ reply'[3] = "reconnected"
              /\ workflow' = workflow
              /\ workflow_status' = workflow_status)]_vars

(* ---------------------------------------------------------------------- *)
(* C15: in the HTTP control service at most one workflow instance has a    *)
(* live engine task at any time.                                           *)
(* ---------------------------------------------------------------------- *)
AtMostOneEngineTask == Cardinality(LiveTasks) <= 1

(* ---------------------------------------------------------------------- *)
(* C16: when loading fails, the load request reports the failure and the   *)
(* server is left holding no workflow instance (so that a status query     *)
(* reports that no workflow is loaded and the next load compiles afresh).  *)
(* ---------------------------------------------------------------------- *)
\* the last request was a load and it reported a failure
LoadFailed ==
    /\ response[1] = "start_workflow"
    /\ response[3] \in {"load failed", "error"}

FailedLoadLeavesNoInstance == LoadFailed => current_workflow = 0

(* ---------------------------------------------------------------------- *)
(* C17: a run() call made while the workflow status is RUNNING, whatever   *)
(* its arguments, leaves the workflow status, the runnable set, the skip   *)
(* flags and every node status unchanged, and launches no job.             *)
(* ---------------------------------------------------------------------- *)
RunWhileRunningChangesNothing ==
    [][(running_status = "running"
           /\ \E verify_only \in BOOLEAN : run_again(verify_only))
          => UNCHANGED << running_status, running_nodes, skipped, job >>]_vars

AbsentStartOrEndFails ==
    (pc # "init"
        /\ (~is_node_present(req.start_node) \/ ~is_node_present(req.end_node)))
        => /\ running_status = "failed"
           /\ pc = "done"
           /\ running_nodes = << >>
           /\ \A n \in PNodes : job[n] = "none"

\* C20: the server shuts down on a shutdown request only when a workflow is
\* loaded and its status is ENDED or FAILED; with no workflow loaded, or with
\* a workflow NOT_STARTED or RUNNING, the request changes nothing and the
\* server keeps serving (POST /shutdown of the HTTP service)
ShutdownAllowed ==
    /\ current_workflow # 0
    /\ get_running_status \in {"ended", "failed"}

ShutdownOnlyWhenFinished ==
    [][ (process = "serving" /\ process' = "terminated") => ShutdownAllowed ]_vars

\* the same property for WorkflowController.request_shutdown of the Pyro
\* controller, where it holds
ControllerShutdownOnlyWhenFinished ==
    [][ (daemon = "serving" /\ daemon' = "shutdown")
          => (workflow # NoWorkflow /\ workflow_status \in {"ended", "failed"}) ]_vars

\* C24: in the compiled graph of every declaration the start sentinel is the
\* only node without predecessor, the end sentinel the only node without
\* successor, and every other node lies on a path from the start sentinel to
\* the end sentinel
OneSourceOneSink ==
    Loaded =>
        /\ {n \in Nodes : Preds(n) = {}} = {"_s"}
        /\ {n \in Nodes : Succs(n) = {}} = {"_e"}
        /\ \A n \in Nodes \ {"_s", "_e"} :
               n \in Descendants("_s") /\ "_e" \in Descendants(n)

\* C25: the compiled graph of a declaration whose ids are pairwise distinct
\* has no directed cycle
CompiledGraphAcyclic ==
    Loaded => \A n \in Nodes : n \notin Descendants(n)

\* a declaration with a block nested in a block has been compiled
WitnessNestedCompiled ==
    /\ Loaded
    /\ \E e \in Entries : \E i \in 1..Len(e.block) : Len(e.block[i].block) > 0

\* C26: for two consecutive siblings a, b of a serial level there is a path
\* from every frontier node of a's subtree, and from every Playbook node of
\* a's subtree, to b's entry node
SerialOrderKept ==
    Loaded =>
        \A l \in Levels :
            l.strategy = "serial" =>
                \A i \in 1..(Len(l.entries) - 1) :
                    \A x \in Frontier(l.entries[i]) \cup PlaybooksIn(l.entries[i]) :
                        l.entries[i + 1].id \in Descendants(x)

\* the same, for the declarations without an empty block
SerialOrderKeptWithoutEmptyBlock ==
    (Loaded /\ EmptyBlocks = {}) =>
        \A l \in Levels :
            l.strategy = "serial" =>
                \A i \in 1..(Len(l.entries) - 1) :
                    \A x \in Frontier(l.entries[i]) \cup PlaybooksIn(l.entries[i]) :
                        l.entries[i + 1].id \in Descendants(x)

\* C27: for two distinct siblings a, b of a parallel level no edge joins a
\* node of a's subtree and a node of b's subtree; the edges that enter a's
\* subtree leave the enclosing block node, and the edges that leave a's
\* subtree end after the enclosing block
ParallelSiblingsDisjoint ==
    Loaded =>
        \A l \in Levels :
            l.strategy = "parallel" =>
                \A i \in 1..Len(l.entries) :
                    LET a == SubtreeIds(l.entries[i])
                        level == UNION {SubtreeIds(l.entries[j]) : j \in 1..Len(l.entries)}
                    IN  \A e \in SeqSet(EdgeSeq) :
                            /\ (e[1] \in a /\ e[2] \notin a)
                                  => e[2] \notin level \cup {l.parent}
                            /\ (e[2] \in a /\ e[1] \notin a) => e[1] = l.parent

\* a parallel block with two entries, one of them a block with entries, compiled
WitnessParallelSiblings ==
    /\ Loaded
    /\ \E l \in Levels :
          /\ l.strategy = "parallel"
          /\ Len(l.entries) = 2
          /\ \E i \in 1..2 : Len(l.entries[i].block) > 0

\* C28: an empty block, under a serial or a parallel parent and at any
\* position, has an edge to what follows and reaches the end sentinel
EmptyBlockReachesEnd ==
    Loaded =>
        \A b \in EmptyBlocks : Succs(b) # {} /\ "_e" \in Descendants(b)

\* C29: add_node rejects with the duplicate-node-id error every node whose id
\* already has a node object, every user-supplied node whose id is _root, _s
\* or _e and every id with a comma; a rejected call changes neither the graph
\* nor the data map, and an id keeps the node object it has
UserAddNode == outcome'[1] = "add_node" /\ outcome'[3] = "user" /\ nadd' # nadd

AddNodeRejects ==
    [][ /\ (UserAddNode /\ (outcome'[2] \in DOMAIN data
                              \/ outcome'[2] \in ReservedIds
                              \/ has_comma(outcome'[2])))
            => (outcome'[4] = "DuplicateNodeId" /\ UNCHANGED << graph, data >>)
        /\ \A id \in DOMAIN data : id \in DOMAIN data' /\ data'[id] = data[id]
      ]_vars

\* the same without the reserved names: duplicates and ids with a comma
AddNodeRejectsDuplicates ==
    [][ /\ (UserAddNode /\ (outcome'[2] \in DOMAIN data \/ has_comma(outcome'[2])))
            => (outcome'[4] = "DuplicateNodeId" /\ UNCHANGED << graph, data >>)
        /\ \A id \in DOMAIN data : id \in DOMAIN data' /\ data'[id] = data[id]
      ]_vars

\* C22: the ident of a launch of node X is X when the artifact directory has
\* no entry X, otherwise X_k for the smallest k >= 1 with no entry X_k; over
\* any sequence of launches and restarts no two launches share an ident and
\* no launch reuses an existing artifact sub-directory
IdentsNeverShared ==
    /\ \A i, j \in 1..Len(launches) : i # j => launches[i][2] # launches[j][2]
    /\ \A i \in 1..Len(launches) : ~launches[i][3]

\* the first sentence of C22 alone, where the directory is as PNode.run saw it
IdentIsFirstFreeName ==
    picked["engine"] # NoPick =>
        LET id == picked["engine"][1]
            ident == picked["engine"][2]
        IN  \/ id \notin artifact_dir /\ ident = id
            \/ /\ id \in artifact_dir
               /\ \E k \in 1..Len(IdentNames[id]) :
                     /\ ident = ident_format(id, k)
                     /\ ident \notin artifact_dir
                     /\ \A j \in 1..(k - 1) : ident_format(id, j) \in artifact_dir

\* the events of one node are a sequence of launches, each PRE_RUNNING,
\* RUNNING, then ENDED or FAILED, or PRE_RUNNING then SKIPPED; the last
\* launch may still be under way
RECURSIVE LaunchOrder(_)
LaunchOrder(s) ==
    \/ s = << >>
    \/ /\ s[1] = "pre_running"
       /\ \/ Len(s) = 1
          \/ s[2] = "skipped" /\ LaunchOrder(SubSeq(s, 3, Len(s)))
          \/ /\ s[2] = "running"
             /\ \/ Len(s) = 2
                \/ s[3] \in {"ended", "failed"} /\ LaunchOrder(SubSeq(s, 4, Len(s)))

\* C23: for every Playbook node and every launch of it the NODE_EVENTs come
\* in the order PRE_RUNNING, RUNNING, then one of ENDED or FAILED
\* (PRE_RUNNING then SKIPPED for a node marked skipped): no RUNNING without
\* a PRE_RUNNING before it, no terminal event twice for one launch
NodeEventsInOrder == \A n \in PNodes : LaunchOrder(events[n])

\* the same for the runs from the default start node that receive no skip
\* and no restart request
NodeEventsInOrderUndisturbed ==
    (req.start_node = "_s" /\ nskip = 0 /\ nrestart = 0) => NodeEventsInOrder

\* C30: for every node whose started time and ended time are both set the
\* started time is not later than the ended time, also while a node
\* restarted after a failure runs again
StartedBeforeEnded ==
    \A n \in Nodes :
        (telemetry[n].started = "set" /\ telemetry[n].ended # "none")
            => telemetry[n].ended = "after_start"

\* what stream_log received is the file it follows, up to the offset
StreamLogHoldsPrefix == log = SubSeq(FileBytes(tailed), 1, offset)

\* C21: for a stdout file that only grows, a client that starts at offset 0
\* and calls tail_stdout each time with the offset returned by the call
\* before receives every byte of the file once and in file order: the
\* contents returned, concatenated, are the file up to the last offset
\* returned; while the file does not exist a call returns empty content
\* and offset 0
TailDeliversFileOnce ==
    /\ tailed # 0 => StreamLogHoldsPrefix
    /\ ~returned[3] => (returned[1] = << >> /\ returned[2] = 0)

\* the same while the workflow loaded when the client started is still the
\* one the controller stores
TailDeliversFileOnceWhileLoaded ==
    (tailed # 0 /\ workflow # NoWorkflow /\ workflow.id = tailed) => StreamLogHoldsPrefix

\* watch_stdout, which reads the file itself, writes the file up to last_pos
WatchStdoutDeliversFileOnce ==
    watch.pc # "idle" =>
        watch.stdout_log = SubSeq(FileBytes(watch.file), 1, watch.last_pos)

\* the nodes whose skip flag is set
Marked == {n \in Nodes : skipped[n]}

\* what the pruning pass is to mark
PruneTarget ==
    (skipped_nodes \cap Nodes) \cup Ancestors(req.start_node)
        \cup Descendants(req.end_node)

\* C31: the pruning pass at the start of run() marks as skipped exactly the
\* nodes of the skip list, every transitive predecessor of start_node and
\* every transitive successor of end_node; every other node keeps its skip
\* flag (no flag is set before the pass), and the pass terminates on every
\* acyclic graph
PruningMarksExactly == pc # "init" => Marked = PruneTarget

\* the same for the skip lists that name nodes of the graph only
PruningMarksExactlyKnownIds ==
    (pc # "init" /\ skipped_nodes \subseteq Nodes) => Marked = PruneTarget

\* C32: a run given a start_node and/or an end_node that are nodes of the
\* graph other than the sentinels, in which every launched job finishes with
\* success and no stop is requested, eventually has the workflow status ENDED
StartEndRunEventuallyEnded == <>(running_status = "ended")

\* the same for the runs to the default end node from a start node that
\* every node is before, after or equal to
SerialStartRunEventuallyEnded ==
    (/\ req.end_node = "_e"
     /\ Nodes = {req.start_node} \cup Ancestors(req.start_node)
                     \cup Descendants(req.start_node))
        => StartEndRunEventuallyEnded

\* C33: when run() is given an end_node that is a Playbook node, that node
\* itself is launched once its predecessors are ENDED or SKIPPED, and only
\* its transitive successors are skipped
EndNodeLaunched ==
    /\ [](\A n \in Nodes :
             (req.start_node = "_s" /\ req.end_node \in PNodes /\ pc # "init")
                 => (skipped[n] <=> n \in Descendants(req.end_node)))
    /\ (/\ req.end_node \in PNodes
        /\ running_status = "running"
        /\ req.end_node \notin Ancestors(req.start_node)
        /\ \E p \in Preds(req.end_node) : p \in SeqSet(running_nodes)
        /\ is_node_runnable(req.end_node))
           ~> (IF req.end_node \in PNodes THEN launched_by[req.end_node] # "none"
               ELSE TRUE)

\* the pruning half of C33 alone
EndNodePrunesSuccessorsOnly ==
    \A n \in Nodes :
        (req.start_node = "_s" /\ req.end_node \in PNodes /\ pc # "init")
            => (skipped[n] <=> n \in Descendants(req.end_node))

\* the node the operator skipped after its job failed
SkippedAfterFailure(n) == n \in PNodes /\ skipped[n] /\ job[n] = "failed"

\* C34: in the failed, awaiting-operator state skip_node on the FAILED node
\* gives it status SKIPPED and re-adds it to the runnable set; the engine
\* removes it on a following step and launches each successor whose
\* predecessors are all ENDED or SKIPPED, and if those jobs succeed the
\* workflow eventually reaches ENDED
SkipResumesWorkflow ==
    /\ [][skip_node_add =>
             /\ get_status(rpc[2]) = "skipped"
             /\ rpc[2] \in SeqSet(running_nodes')]_vars
    /\ \A n \in AllIds :
           (SkippedAfterFailure(n) /\ n \in SeqSet(running_nodes))
               ~> (n \notin SeqSet(running_nodes))
    /\ \A n \in AllIds : \A m \in AllIds :
           (/\ SkippedAfterFailure(n) /\ n \in SeqSet(running_nodes)
            /\ m \in PNodes /\ m \in Succs(n) /\ is_node_runnable(m))
               ~> (IF m \in PNodes THEN launched_by[m] # "none" ELSE TRUE)
    /\ (\E n \in AllIds : SkippedAfterFailure(n)) ~> (running_status = "ended")

\* P1 failed and was skipped by the operator; its successor P3 was launched
\* by the engine after that, succeeded, and the workflow is ENDED
WitnessSkipResumed ==
    /\ SkippedAfterFailure("P1")
    /\ "P3" \in Succs("P1")
    /\ launched_by["P3"] = "step" /\ job["P3"] = "ok"
    /\ nskip = 1
    /\ running_status = "ended"

\* C35: restart_node on a node whose status is not FAILED (NOT_STARTED,
\* RUNNING, ENDED or SKIPPED) launches nothing and leaves the workflow
\* status, the runnable set and every node status unchanged
RestartOfNonFailedChangesNothing ==
    [][\A n \in Nodes :
          (rpc = Idle /\ get_status(n) # "failed")
              => /\ rpc' # <<"restart_run", n>>
                 /\ last' = <<"restart_refused", n>>
                       => UNCHANGED << running_status, running_nodes, job, skipped,
                                       launched_by, rpc >>]_vars

\* restart_node was refused for P1, which is RUNNING, and for the skipped P2
\* of a running workflow
WitnessRestartRefused ==
    /\ running_status = "running"
    /\ \/ last = <<"restart_refused", "P1">> /\ get_status("P1") = "running"
       \/ last = <<"restart_refused", "P2">> /\ get_status("P2") = "skipped"

\* C36: during a run every Playbook node is launched at most once, plus once
\* for each accepted restart_node of it: under any interleaving of
\* scheduling steps with skip_node and restart_node requests no job of a
\* node is started again without a restart_node of that node
LaunchedOnceUnlessRestarted ==
    [][\A n \in PNodes :
          (Launched(n)' /\ launched_by'[n] # "restart") => launched_by[n] = "none"]_vars

\* the same for the runs that receive no skip_node and no restart_node
\* request
LaunchedOnceWithoutRequest ==
    [][\A n \in PNodes :
          (nskip' = 0 /\ nrestart' = 0 /\ Launched(n)' /\ launched_by'[n] # "restart")
              => launched_by[n] = "none"]_vars

(* ---------------------------------------------------------------------- *)
(* C37: whenever the engine loop is active and the job of at least one     *)
(* Playbook node is in flight, the workflow status is RUNNING.             *)
(* ---------------------------------------------------------------------- *)
RunningWhileAnyJobInFlight ==
    (pc \notin {"init", "done"} /\ \E n \in PNodes : InFlight(n))
        => running_status = "running"

\* the same for the jobs of nodes that are not marked skipped, in the runs
\* that received no skip_node and no restart_node
RunningWhileAnyJobInFlightNoRequest ==
    (pc \notin {"init", "done"} /\ nskip = 0 /\ nrestart = 0
        /\ \E n \in PNodes : InFlight(n) /\ ~skipped[n])
        => running_status = "running"

\* the same with the skip_node and restart_node requests, for the jobs of
\* nodes that are not marked skipped
RunningWhileUnskippedJobInFlight ==
    (pc \notin {"init", "done"} /\ \E n \in PNodes : InFlight(n) /\ ~skipped[n])
        => running_status = "running"

(* ---------------------------------------------------------------------- *)
(* C38: when every job finishes, a workflow whose status is RUNNING        *)
(* eventually has status ENDED or FAILED: an engine loop is alive to       *)
(* observe the nodes whenever the status is RUNNING.                       *)
(* ---------------------------------------------------------------------- *)
RunningEventuallySettles ==
    (running_status = "running") ~> (running_status \in {"ended", "failed"})

\* the same for the status RUNNING of a workflow that was not stopped
RunningEventuallySettlesUnlessStopped ==
    (running_status = "running" /\ ~stopped)
        ~> (running_status \in {"ended", "failed"})

\* the status is RUNNING only while the loop of run() is alive, until a stop
RunningOnlyWhileLoopAliveUnlessStopped ==
    (running_status = "running" /\ ~stopped) => pc # "done"

(* ---------------------------------------------------------------------- *)
(* C39: when two clients call run() on the same loaded workflow while its  *)
(* status is NOT_STARTED, one scheduling loop is started, the start node   *)
(* is added to the runnable set once and every Playbook node is launched   *)
(* at most once.                                                           *)
(* ---------------------------------------------------------------------- *)
OneLoopForTwoCallers ==
    /\ [](nloops <= 1)
    /\ [](nstart <= 1)
    /\ [][\A n \in PNodes : (Launched(n)' => launched_by[n] = "none")]_vars

\* a call of run() that finds the status RUNNING returns without a loop:
\* as long as the second caller has not passed the status test, one loop
\* runs and every node is launched once
SecondCallAfterRunningIsHarmless ==
    /\ [](pc2 \in {"idle", "returned"} => (nloops <= 1 /\ nstart <= 1))
    /\ [][\A n \in PNodes :
            ((pc2' \in {"idle", "returned"} /\ Launched(n)') => launched_by[n] = "none")]_vars

====
